---------------------------- MODULE Spec2Model ----------------------------
(***************************************************************************)
(* Model of the refresh scheduler and display-mode state machine of        *)
(* nexus-led-scoreboard (ScoreboardManager in scoreboard_manager.py).      *)
(*                                                                         *)
(* Time.  An instant is an integer number of ticks since midnight UTC of   *)
(* day 0; one second is TicksPerSecond ticks, so that time differences     *)
(* (timedelta.total_seconds()) can have a fractional part and int() has    *)
(* something to round.  Intervals of the configuration and the sleep       *)
(* values returned are whole seconds, as in the code.                      *)
(*                                                                         *)
(* Text.  A text value that the code parses (daily_schedule_check_time)    *)
(* is a sequence of one-character strings, so that split(":") and int()    *)
(* are computed, not assumed.                                              *)
(*                                                                         *)
(* A dict entry that may be absent is a sequence: << >> when the key is    *)
(* missing, <<v>> when it is present with value v.                         *)
(***************************************************************************)
EXTENDS Integers, Sequences, FiniteSets, TLC

VARIABLES
    config,                \* the loaded configuration (immutable during a run)
    tz_offset,             \* UTC offset of the local time zone, in ticks
    now,                   \* the clock: current instant, in ticks, UTC
    all_games_data,        \* self.all_games_data
    current_display_mode,  \* self.current_display_mode
    last_daily_schedule_check_date,  \* << >> (None) or <<date>>
    last_data_fetch_time,  \* << >> (None) or <<local instant>>
    cache,                 \* the fetcher's cache files: a set of [key, data]
    last_request_time,     \* ESPNAPIFetcher._last_request_time
    all_parsed_games,      \* the list a fetch pass is accumulating
    league_index,          \* the configured league the pass is at
    full_fetch,            \* whether the pass under way is a full daily fetch
    date_str,              \* the date the pass under way requests
    fetch_log,             \* what each league of the latest pass came to
    ret,                   \* what the last call of the Mode Selector returned
    boards_to_display,     \* the board list looked up for the mode
    caught,                \* the exception the loop's except clause caught last
    iterations,            \* passes started so far
    pc                     \* position of the thread of control

managerVars == <<all_games_data, current_display_mode,
                 last_daily_schedule_check_date, last_data_fetch_time>>

fetcherVars == <<cache, last_request_time>>

passVars == <<all_parsed_games, league_index, full_fetch, date_str, fetch_log>>

vars == <<config, tz_offset, now, managerVars, fetcherVars, passVars,
          ret, boards_to_display, caught, iterations, pc>>

-----------------------------------------------------------------------------
(* Bounds of the model *)

\* longest game list handed to the Mode Selector
MaxGames == 2

\* clock resolution: ticks per second
TicksPerSecond == 2

\* iterations of the polling loop followed
MaxIterations == 3

-----------------------------------------------------------------------------
(* Time arithmetic *)

Seconds(n) == n * TicksPerSecond

TicksPerDay == Seconds(86400)

Min(a, b) == IF a <= b THEN a ELSE b

Max(a, b) == IF a >= b THEN a ELSE b

\* faulty variant: a number of seconds with a fractional part is rounded up
PyIntRoundingUp(ticks) ==
    IF ticks >= 0 THEN (ticks + TicksPerSecond - 1) \div TicksPerSecond
                  ELSE -((-ticks) \div TicksPerSecond)

\* int(x) of a number of seconds x given in ticks: truncation toward zero
PyInt(ticks) ==
    IF ticks >= 0 THEN ticks \div TicksPerSecond
                  ELSE -((-ticks) \div TicksPerSecond)

\* datetime.date(): the day number of an instant
DateOf(t) == t \div TicksPerDay

\* datetime.combine(date, time(hour, minute)) as an instant
Combine(date, hour, minute) == date * TicksPerDay + Seconds(hour * 3600 + minute * 60)

\* time.replace(hour=..., minute=...) raises ValueError outside these ranges
TimeReplaceOk(hour, minute) == hour \in 0..23 /\ minute \in 0..59

-----------------------------------------------------------------------------
(* Text parsing: str.split(":") and int() *)

DigitChars == {"0", "1", "2", "3", "4", "5", "6", "7", "8", "9"}

DigitValue(c) ==
    CASE c = "0" -> 0 [] c = "1" -> 1 [] c = "2" -> 2 [] c = "3" -> 3
      [] c = "4" -> 4 [] c = "5" -> 5 [] c = "6" -> 6 [] c = "7" -> 7
      [] c = "8" -> 8 [] c = "9" -> 9

RECURSIVE DigitsValue(_)
DigitsValue(s) ==
    IF s = << >> THEN 0
    ELSE DigitsValue(SubSeq(s, 1, Len(s) - 1)) * 10 + DigitValue(s[Len(s)])

\* str.split(sep): the fields between the separators, at least one field
RECURSIVE Split(_, _)
Split(s, sep) ==
    IF \A i \in 1..Len(s) : s[i] # sep
    THEN <<s>>
    ELSE LET i == CHOOSE k \in 1..Len(s) :
                      s[k] = sep /\ \A j \in 1..(k - 1) : s[j] # sep
         IN  <<SubSeq(s, 1, i - 1)>> \o Split(SubSeq(s, i + 1, Len(s)), sep)

\* int(text): an optional sign followed by one or more digits, else ValueError
IntOk(s) ==
    LET body == IF s # << >> /\ s[1] \in {"+", "-"} THEN Tail(s) ELSE s
    IN  body # << >> /\ \A i \in 1..Len(body) : body[i] \in DigitChars

IntValue(s) ==
    IF s[1] = "-" THEN -DigitsValue(Tail(s))
    ELSE IF s[1] = "+" THEN DigitsValue(Tail(s))
    ELSE DigitsValue(s)

\* check_hour, check_minute = map(int, text.split(":")): ValueError when the
\* number of fields is not two or a field is no integer
HourMinuteOk(text) ==
    LET fields == Split(text, ":")
    IN  Len(fields) = 2 /\ IntOk(fields[1]) /\ IntOk(fields[2])

HourMinute(text) ==
    LET fields == Split(text, ":")
    IN  <<IntValue(fields[1]), IntValue(fields[2])>>

-----------------------------------------------------------------------------
(* Configuration *)

\* dict.get(key, default) on an entry that is << >> or <<value>>
Get(entry, default) == IF entry = << >> THEN default ELSE entry[1]

DefaultCheckTime == <<"0", "5", ":", "0", "0">>

-----------------------------------------------------------------------------
(* Game (data_parser.py) *)

\* faulty variant: is_live tests the provider's own text for a running game
IsLiveProviderText(g) == g.status_state = "in"

IsLive(g) == g.status_state = "in_progress"

IsPregame(g) == g.status_state = "pre"

IsPostgame(g) == g.status_state = "post"

-----------------------------------------------------------------------------
(* Mode Selector: ScoreboardManager._determine_overall_display_mode *)

\* faulty variant: the no-games mode is returned under another name
ReturnedUnderOldName(mode, sleep) ==
    [exc |-> "none", mode |-> IF mode = "no_games_today" THEN "no_games" ELSE mode,
     sleep |-> sleep]

\* what a call produced: a (mode, sleep) pair, or the exception that left it
Returned(mode, sleep) == [exc |-> "none", mode |-> mode, sleep |-> sleep]

Raised(exception) == [exc |-> exception, mode |-> "none", sleep |-> 0]

RetInit == [exc |-> "none", mode |-> "none", sleep |-> 0]

\* faulty variant: live mode is entered only when the stored mode is another
LiveModeEnabledFromOtherMode(cfg) ==
    /\ Get(cfg.display_settings.live_mode_enabled, FALSE)
    /\ current_display_mode # "live_favorites"

LiveModeEnabled(cfg) == Get(cfg.display_settings.live_mode_enabled, FALSE)

LiveFavoriteGames(parsed_games) ==
    SelectSeq(parsed_games, LAMBDA g : IsLive(g) /\ g.is_favorite)

\* faulty variant: every live game counts for the second rule
LiveOtherGamesAnyLive(parsed_games) ==
    SelectSeq(parsed_games, LAMBDA g : IsLive(g))

LiveOtherGames(parsed_games) ==
    SelectSeq(parsed_games, LAMBDA g : IsLive(g) /\ ~g.is_favorite)

\* sorted(..., key=start_time): a stable sort
RECURSIVE SortedByStartTime(_)
SortedByStartTime(s) ==
    IF s = << >> THEN << >>
    ELSE LET front == SortedByStartTime(SubSeq(s, 1, Len(s) - 1))
             g     == s[Len(s)]
             n     == Cardinality({i \in 1..Len(front) :
                                      front[i].start_time <= g.start_time})
         IN  SubSeq(front, 1, n) \o <<g>> \o SubSeq(front, n + 1, Len(front))

\* faulty variant: a pre game that should have started is kept in the list
PregameGamesIncludingStarted(parsed_games, now_) ==
    SortedByStartTime(SelectSeq(parsed_games, LAMBDA g : IsPregame(g)))

PregameGames(parsed_games, now_) ==
    SortedByStartTime(
        SelectSeq(parsed_games, LAMBDA g : IsPregame(g) /\ g.start_time > now_))

\* faulty variant: the favorite test of the post-game favorite list is dropped
PostgameFavoriteGamesAnyPost(parsed_games) ==
    SelectSeq(parsed_games, LAMBDA g : IsPostgame(g))

\* faulty variant: a favorite's finished game counts only when no other
\* finished game is in the list
PostgameFavoriteGamesWhenAlone(parsed_games) ==
    IF \E i \in 1..Len(parsed_games) :
           IsPostgame(parsed_games[i]) /\ ~parsed_games[i].is_favorite
    THEN << >>
    ELSE SelectSeq(parsed_games, LAMBDA g : IsPostgame(g) /\ g.is_favorite)

PostgameFavoriteGames(parsed_games) ==
    SelectSeq(parsed_games, LAMBDA g : IsPostgame(g) /\ g.is_favorite)

PostgameOtherGames(parsed_games) ==
    SelectSeq(parsed_games, LAMBDA g : IsPostgame(g) /\ ~g.is_favorite)

\* faulty variant: the 60 s lead before the game is not subtracted
FarFutureSleepNoLead(time_until_earliest_game, pre_post_interval) ==
    PyInt(Max(Min(time_until_earliest_game, Seconds(pre_post_interval)),
              Seconds(30)))

\* faulty variant: the 30 s floor of the far-future sleep is missing
FarFutureSleepNoFloor(time_until_earliest_game, pre_post_interval) ==
    PyInt(Min(time_until_earliest_game - Seconds(60), Seconds(pre_post_interval)))

\* the sleep of the far-future branch: int(max(min(t - 60, pre_post), 30))
FarFutureSleep(time_until_earliest_game, pre_post_interval) ==
    PyInt(Max(Min(time_until_earliest_game - Seconds(60),
                  Seconds(pre_post_interval)),
              Seconds(30)))

\* faulty variant: the near window is one minute instead of five
PreGameSleepOneMinuteWindow(time_until_earliest_game, pre_post_interval) ==
    IF time_until_earliest_game < Seconds(60) /\ time_until_earliest_game > 0
    THEN pre_post_interval
    ELSE IF time_until_earliest_game <= 0
    THEN Min(pre_post_interval, 60)
    ELSE FarFutureSleep(time_until_earliest_game, pre_post_interval)

\* the three-way choice on the time until the earliest pre game
PreGameSleep(time_until_earliest_game, pre_post_interval) ==
    IF time_until_earliest_game < Seconds(300) /\ time_until_earliest_game > 0
    THEN pre_post_interval
    ELSE IF time_until_earliest_game <= 0
    THEN Min(pre_post_interval, 60)
    ELSE FarFutureSleep(time_until_earliest_game, pre_post_interval)

\* check_hour, check_minute of the Mode Selector: 5, 0 unless the text parses
SelectorCheckTime(cfg) ==
    LET daily_time_cfg == Get(cfg.refresh_intervals.daily_schedule_check_time,
                              DefaultCheckTime)
    IN  IF HourMinuteOk(daily_time_cfg) THEN HourMinute(daily_time_cfg)
        ELSE <<5, 0>>

\* faulty variant: a check time equal to now counts as still to come
TimeUntilNextCheckInclusive(now_, check_hour, check_minute) ==
    LET current_date        == DateOf(now_)
        next_check_dt_today == Combine(current_date, check_hour, check_minute)
    IN  IF now_ <= next_check_dt_today
        THEN next_check_dt_today - now_
        ELSE Combine(current_date + 1, check_hour, check_minute) - now_

\* seconds (in ticks) from now_ to the next occurrence of the check time
TimeUntilNextCheck(now_, check_hour, check_minute) ==
    LET current_date        == DateOf(now_)
        next_check_dt_today == Combine(current_date, check_hour, check_minute)
    IN  IF now_ < next_check_dt_today
        THEN next_check_dt_today - now_
        ELSE Combine(current_date + 1, check_hour, check_minute) - now_

\* faulty variant: the 30 s floor of the no-games sleep is missing
NoGamesSleepNoFloor(time_until_next_check, no_games_interval) ==
    PyInt(Min(time_until_next_check, Seconds(no_games_interval)))

\* int(max(min(time_until_next_check, no_games_interval), 30))
NoGamesSleep(time_until_next_check, no_games_interval) ==
    PyInt(Max(Min(time_until_next_check, Seconds(no_games_interval)),
              Seconds(30)))

\* faulty variant: a missing no_games key is replaced by the pre/post default
NoGamesDecisionDefaultingTo300(now_, cfg) ==
    LET hm                == SelectorCheckTime(cfg)
        no_games_interval == Get(cfg.refresh_intervals.no_games, 300)
    IN  IF ~TimeReplaceOk(hm[1], hm[2])
        THEN Raised("ValueError")
        ELSE Returned("no_games_today",
                      NoGamesSleep(TimeUntilNextCheck(now_, hm[1], hm[2]),
                                   no_games_interval))

\* the default branch: no_games_today, or the ValueError of time.replace
NoGamesDecision(now_, cfg) ==
    LET hm                == SelectorCheckTime(cfg)
        no_games_interval == Get(cfg.refresh_intervals.no_games, 900)
    IN  IF ~TimeReplaceOk(hm[1], hm[2])
        THEN Raised("ValueError")
        ELSE Returned("no_games_today",
                      NoGamesSleep(TimeUntilNextCheck(now_, hm[1], hm[2]),
                                   no_games_interval))

\* g.start_time > now is evaluated for every pre game when pregame_games is
\* built: a start_time without a time zone cannot be compared with the
\* aware now and the comparison raises TypeError
NaivePregame(parsed_games) ==
    \E i \in 1..Len(parsed_games) :
        IsPregame(parsed_games[i]) /\ ~parsed_games[i].tz_aware

DetermineOverallDisplayMode(parsed_games, now_, cfg) ==
    LET live_favorite_games     == LiveFavoriteGames(parsed_games)
        live_other_games        == LiveOtherGames(parsed_games)
        pregame_games           == PregameGames(parsed_games, now_)
        postgame_favorite_games == PostgameFavoriteGames(parsed_games)
        postgame_other_games    == PostgameOtherGames(parsed_games)
        fav_live_interval   == Get(cfg.refresh_intervals.in_progress_favorite_team, 5)
        other_live_interval == Get(cfg.refresh_intervals.in_progress_other_games, 15)
        pre_post_interval   == Get(cfg.refresh_intervals.pre_game_post_game, 300)
    IN  IF NaivePregame(parsed_games)
        THEN Raised("TypeError")
        ELSE IF LiveModeEnabled(cfg) /\ live_favorite_games # << >>
        THEN Returned("live_favorites", fav_live_interval)
        ELSE IF live_other_games # << >>
        THEN Returned("in_progress_games", other_live_interval)
        ELSE IF pregame_games # << >>
        THEN Returned("pre_game_scheduled",
                      PreGameSleep(pregame_games[1].start_time - now_,
                                   pre_post_interval))
        ELSE IF postgame_favorite_games # << >>
        THEN Returned("post_game_finished_favorite", pre_post_interval)
        ELSE IF postgame_other_games # << >>
        THEN Returned("post_game_finished_all", pre_post_interval)
        ELSE NoGamesDecision(now_, cfg)

-----------------------------------------------------------------------------
(* Event Parser: ESPNDataParser.parse_events (data_parser.py) *)

InSeq(x, seq) == \E i \in 1..Len(seq) : seq[i] = x

\* faulty variant: the favorite ids of every league count for any league
FavoriteIdsForAnyLeague(cfg, league_slug) ==
    LET hits == {i \in 1..Len(cfg.sports) : cfg.sports[i].favorite_team_ids # << >>}
    IN  IF hits = {} THEN << >>
        ELSE cfg.sports[CHOOSE i \in hits : \A j \in hits : j <= i].favorite_team_ids

\* the favorite ids the parser holds for a league slug: the map built in
\* ScoreboardManager.__init__ has an entry only for a league with an id and a
\* non-empty favorite list; get(league_slug, []) otherwise
FavoriteIdsFor(cfg, league_slug) ==
    LET hits == {i \in 1..Len(cfg.sports) :
                    /\ cfg.sports[i].id = <<league_slug>>
                    /\ cfg.sports[i].favorite_team_ids # << >>}
    IN  IF hits = {} THEN << >>
        ELSE cfg.sports[CHOOSE i \in hits : \A j \in hits : j <= i].favorite_team_ids

\* str(team_id) of an id that may be None
StrOf(entry) == IF entry = << >> THEN "None" ELSE entry[1]

\* one event of the payload: << >> when it is skipped, <<game>> otherwise
ParseEvent(event_data, league_slug, cfg) ==
    LET favorite_ids_for_league ==
            IF league_slug = << >> THEN << >>
            ELSE FavoriteIdsFor(cfg, league_slug[1])
        is_favorite ==
            /\ league_slug # << >>
            /\ \/ InSeq(StrOf(event_data.home_team_id), favorite_ids_for_league)
               \/ InSeq(StrOf(event_data.away_team_id), favorite_ids_for_league)
    IN  IF event_data.date.kind = "bad"          \* fromisoformat raises: caught, skipped
        THEN << >>
        ELSE IF ~event_data.competitions         \* no competitions: continue
        THEN << >>
        ELSE IF /\ event_data.id # << >>
                /\ event_data.date.kind \in {"utc", "naive"}
                /\ event_data.state # << >>
                /\ event_data.home_team_id # << >>
                /\ event_data.away_team_id # << >>
        THEN <<[game_id      |-> event_data.id[1],
                league       |-> StrOf(league_slug),
                start_time   |-> event_data.date.t,
                status_state |-> event_data.state[1],
                is_favorite  |-> is_favorite,
                tz_aware     |-> event_data.date.kind = "utc"]>>
        ELSE << >>

RECURSIVE ParseEventList(_, _, _)
ParseEventList(events, league_slug, cfg) ==
    IF events = << >> THEN << >>
    ELSE ParseEvent(Head(events), league_slug, cfg)
             \o ParseEventList(Tail(events), league_slug, cfg)

\* a decoded JSON value is falsy when it is an empty dict; the only non-dict
\* value modelled is a non-empty JSON array
Truthy(data) ==
    data.shape = "list" \/ data.leagues # << >> \/ data.events # << >> \/ data.sport

\* faulty variant: an event that cannot be parsed aborts the parse
ParseEventsAbortingOnMalformed(raw_data, cfg) ==
    IF ~Truthy(raw_data) \/ raw_data.events = << >>
    THEN << >>
    ELSE IF \E i \in 1..Len(raw_data.events[1]) :
                ParseEvent(raw_data.events[1][i], raw_data.leagues, cfg) = << >>
    THEN << >>
    ELSE ParseEventList(raw_data.events[1], raw_data.leagues, cfg)

ParseEvents(raw_data, cfg) ==
    IF ~Truthy(raw_data) \/ raw_data.events = << >>
    THEN << >>
    ELSE ParseEventList(raw_data.events[1], raw_data.leagues, cfg)

-----------------------------------------------------------------------------
(* Fetch Client: ESPNAPIFetcher (data_fetcher.py) *)

\* the JSON value {}: what get_scoreboard returns on a request error
EmptyPayload == [shape |-> "dict", sport |-> FALSE, leagues |-> << >>, events |-> << >>]

CacheKey(sport, league, date) == <<sport, league, date>>

\* _load_from_cache: << >> (None) when there is no file for the key
LoadFromCache(files, key) ==
    IF \E c \in files : c.key = key
    THEN <<(CHOOSE c \in files : c.key = key).data>>
    ELSE << >>

\* _save_to_cache: the file of the key is overwritten
SaveToCache(files, key, data) ==
    {c \in files : c.key # key} \cup {[key |-> key, data |-> data]}

\* faulty variant: a refresh does not look into the cache
CacheHitOnFullFetchOnly(files, key) ==
    /\ full_fetch
    /\ LoadFromCache(files, key) # << >> /\ Truthy(LoadFromCache(files, key)[1])

\* the cache hit of get_scoreboard: a file exists and its value is truthy
CacheHit(files, key) ==
    LoadFromCache(files, key) # << >> /\ Truthy(LoadFromCache(files, key)[1])

MIN_REQUEST_INTERVAL_SECONDS == 2

\* faulty variant: the request goes out at once
RateLimitedInstantNoWait(t, last) == t

\* _apply_rate_limit: the instant the request goes out, given the clock
RateLimitedInstant(t, last) ==
    IF t - last < Seconds(MIN_REQUEST_INTERVAL_SECONDS)
    THEN last + Seconds(MIN_REQUEST_INTERVAL_SECONDS)
    ELSE t

\* faulty variant: the {} of a failed request is written to the cache
CacheAfterRequestAlwaysSaving(files, key, response) ==
    SaveToCache(files, key, response.data)

\* get_scoreboard after the rate limit: the body of a request that succeeded
\* is saved under the key; a request error is logged and saves nothing
CacheAfterRequest(files, key, response) ==
    IF response.ok THEN SaveToCache(files, key, response.data) ELSE files

-----------------------------------------------------------------------------
(* Refresh Orchestrator: helpers of ScoreboardManager._fetch_all_sport_data
   and ScoreboardManager.run *)

\* faulty variant: the pass reads the UTC clock
LocalNowInUTC(t, offset) == t

\* datetime.now(): the naive local time
LocalNow(t, offset) == t + offset

\* check_hour, check_minute of the fetch pass: 5, 0 when the text does not parse
FetchCheckTime(cfg) ==
    LET daily_check_time_str == Get(cfg.refresh_intervals.daily_schedule_check_time,
                                    DefaultCheckTime)
    IN  IF HourMinuteOk(daily_check_time_str) THEN HourMinute(daily_check_time_str)
        ELSE <<5, 0>>

\* faulty variant: only the first pass counts as a new day
IsNewDayForCheckFirstPassOnly(last_date, current_date, local_now, today_check_dt, games) ==
    last_date = << >>

\* faulty variant: after today's check time the day counts as new even when
\* the list holds games
IsNewDayForCheckAfterCheckTime(last_date, current_date, local_now, today_check_dt, games) ==
    \/ last_date = << >>
    \/ last_date[1] < current_date
    \/ /\ last_date[1] = current_date
       /\ local_now >= today_check_dt

\* faulty variant: a recorded date before today does not make a new day
IsNewDayForCheckWithoutDateTest(last_date, current_date, local_now, today_check_dt, games) ==
    \/ last_date = << >>
    \/ /\ last_date[1] = current_date
       /\ local_now >= today_check_dt
       /\ games = << >>

IsNewDayForCheck(last_date, current_date, local_now, today_check_dt, games) ==
    \/ last_date = << >>
    \/ last_date[1] < current_date
    \/ /\ last_date[1] = current_date
       /\ local_now >= today_check_dt
       /\ games = << >>

\* the "sport" and "leagues" keys the pass adds to a payload that lacks them
WithSportAndLeague(raw_events, league_id) ==
    [raw_events EXCEPT !.sport = TRUE,
                       !.leagues = IF raw_events.leagues = << >>
                                   THEN <<league_id>> ELSE raw_events.leagues]

\* faulty variant: a mode without an entry shows the boards of no_games_today
BoardsForWithFallback(cfg, mode) ==
    IF cfg.display_modes[mode] = << >>
    THEN Get(cfg.display_modes["no_games_today"][1].boards, << >>)
    ELSE Get(cfg.display_modes[mode][1].boards, << >>)

\* display_modes_config.get(mode, {}).get("boards", [])
BoardsFor(cfg, mode) ==
    IF cfg.display_modes[mode] = << >> THEN << >>
    ELSE Get(cfg.display_modes[mode][1].boards, << >>)

-----------------------------------------------------------------------------
(* Inputs of the Mode Selector *)

\* status texts: the parser copies the provider's text, and the provider's
\* text for a running game is "in"
StatusStates == {"pre", "in_progress", "post", "in"}

\* start_time - now of the pre games tried: past, now, near, the 300 s
\* threshold and its neighbours, far
PreDeltas ==
    {Seconds(-5), 0, 1, Seconds(150), Seconds(300) - 1, Seconds(300),
     Seconds(300) + 1, Seconds(10000)}

GameRecord(status, start, fav) ==
    [game_id |-> "e1", league |-> "nfl", start_time |-> start,
     status_state |-> status, is_favorite |-> fav, tz_aware |-> TRUE]

GamesAt(t) ==
    {GameRecord("pre", t + d, f) : d \in PreDeltas, f \in BOOLEAN}
    \cup {GameRecord(st, t - Seconds(3600), f) :
              st \in StatusStates \ {"pre"}, f \in BOOLEAN}

SeqsUpTo(S, n) == UNION {[1..k -> S] : k \in 0..n}

At(hour, minute, second) == TicksPerDay + Seconds(hour * 3600 + minute * 60 + second)

\* clock values tried: before, just before, at and after the default check
\* time, and the last tick of the day
NowValues ==
    {At(4, 0, 0), At(4, 0, 0) + 1, At(5, 0, 0) - 1, At(5, 0, 0),
     At(23, 59, 59) + (TicksPerSecond - 1)}

\* daily_schedule_check_time entries tried: missing, "05:00", "04:30",
\* "ab:00", "5", "1:2:3", "25:00", "12:75"
CheckTimeEntries ==
    {<< >>,
     <<DefaultCheckTime>>,
     << <<"0", "4", ":", "3", "0">> >>,
     << <<"a", "b", ":", "0", "0">> >>,
     << <<"5">> >>,
     << <<"1", ":", "2", ":", "3">> >>,
     << <<"2", "5", ":", "0", "0">> >>,
     << <<"1", "2", ":", "7", "5">> >>}

LiveModeEntries == {<< >>, <<TRUE>>, <<FALSE>>}

\* the configured leagues, in configuration order
ConfiguredLeagues ==
    <<[sport |-> "football", id |-> <<"nfl">>, favorite_team_ids |-> <<"1">>],
      [sport |-> "baseball", id |-> <<"mlb">>, favorite_team_ids |-> << >>]>>

Modes ==
    {"live_favorites", "in_progress_games", "pre_game_scheduled",
     "post_game_finished_favorite", "post_game_finished_all", "no_games_today"}

\* display_modes: some modes with boards, one without a boards key, the
\* others not configured
ConfiguredDisplayModes ==
    [m \in Modes |->
        CASE m = "live_favorites" -> <<[boards |-> << <<"live_game_favorite_team">> >>]>>
          [] m = "no_games_today" -> <<[boards |-> << <<"clock", "weather">> >>]>>
          [] m = "pre_game_scheduled" -> <<[boards |-> << >>]>>
          [] OTHER -> << >>]

ConfigRecord(live, fav_live, other_live, pre_post, no_games, check_time) ==
    [sports            |-> ConfiguredLeagues,
     display_modes     |-> ConfiguredDisplayModes,
     display_settings  |-> [live_mode_enabled |-> live],
     refresh_intervals |-> [in_progress_favorite_team |-> fav_live,
                            in_progress_other_games   |-> other_live,
                            pre_game_post_game        |-> pre_post,
                            no_games                  |-> no_games,
                            daily_schedule_check_time |-> check_time]]

\* configurations that vary the intervals of the game-driven modes
IntervalConfigs ==
    {ConfigRecord(live, fl, ol, pp, << >>, << >>) :
        live \in LiveModeEntries,
        fl \in {<< >>, <<45>>},
        ol \in {<< >>, <<60>>},
        pp \in {<< >>, <<10>>, <<120>>}}

\* configurations that vary what the no_games_today sleep is computed from
DailyCheckConfigs ==
    {ConfigRecord(live, << >>, << >>, << >>, ng, ct) :
        live \in {<<TRUE>>, <<FALSE>>},
        ng \in {<< >>, <<20>>, <<7200>>},
        ct \in CheckTimeEntries}

-----------------------------------------------------------------------------
(* Specification of the Mode Selector alone: one call on each input.  The
   inputs are two families: every game list up to MaxGames under the
   configurations that vary the intervals, and the shorter lists under the
   configurations and clock values that vary the daily-check arithmetic. *)

\* the state ScoreboardManager.__init__ and ESPNAPIFetcher.__init__ leave
Constructed ==
    /\ current_display_mode = "no_games_today"
    /\ last_data_fetch_time = << >>
    /\ last_daily_schedule_check_date = << >>
    /\ cache = {}
    /\ last_request_time = 0
    /\ all_parsed_games = << >>
    /\ league_index = 0
    /\ full_fetch = FALSE
    /\ date_str = 0
    /\ fetch_log = << >>
    /\ ret = RetInit
    /\ boards_to_display = << >>
    /\ caught = "none"
    /\ iterations = 0

SelectorInit ==
    /\ pc = "select"
    /\ Constructed
    /\ tz_offset = 0
    /\ \/ /\ config \in IntervalConfigs
          /\ now = At(4, 0, 0)
          /\ all_games_data \in SeqsUpTo(GamesAt(now), MaxGames)
       \/ /\ config \in DailyCheckConfigs
          /\ now \in NowValues
          /\ all_games_data \in SeqsUpTo(GamesAt(now), MaxGames - 1)

SelectMode ==
    /\ pc = "select"
    /\ ret' = DetermineOverallDisplayMode(all_games_data, now, config)
    /\ pc' = "returned"
    /\ UNCHANGED <<config, tz_offset, now, managerVars, fetcherVars, passVars,
                   boards_to_display, caught, iterations>>

SelectorNext == SelectMode

SelectorSpec == SelectorInit /\ [][SelectorNext]_vars

-----------------------------------------------------------------------------
(* Specification of two calls of the Mode Selector on the same game list,
   clock value and configuration, the state of the scheduler having changed
   between them as the loop and the fetch pass change it *)

RepeatInit ==
    /\ pc = "select"
    /\ Constructed
    /\ tz_offset = 0
    /\ \/ /\ config \in IntervalConfigs
          /\ now = At(4, 0, 0)
          /\ all_games_data \in SeqsUpTo(GamesAt(now), MaxGames - 1)
       \/ /\ config \in DailyCheckConfigs
          /\ now \in NowValues
          /\ all_games_data = << >>

\* values of current_display_mode, last_daily_schedule_check_date and
\* last_data_fetch_time that run() and _fetch_all_sport_data store
SchedulerStates(t) ==
    {[mode |-> "live_favorites", check_date |-> <<DateOf(t)>>, fetch_time |-> <<t>>],
     [mode |-> "post_game_finished_all", check_date |-> <<DateOf(t) - 1>>,
      fetch_time |-> <<t - Seconds(900)>>],
     [mode |-> "no_games_today", check_date |-> <<DateOf(t)>>,
      fetch_time |-> <<t - Seconds(5)>>]}

Reschedule ==
    /\ pc = "returned"
    /\ \E st \in SchedulerStates(now) :
          /\ current_display_mode' = st.mode
          /\ last_daily_schedule_check_date' = st.check_date
          /\ last_data_fetch_time' = st.fetch_time
    /\ pc' = "rescheduled"
    /\ UNCHANGED <<config, tz_offset, now, all_games_data, fetcherVars, passVars,
                   ret, boards_to_display, caught, iterations>>

SelectAgain ==
    /\ pc = "rescheduled"
    /\ ret' = DetermineOverallDisplayMode(all_games_data, now, config)
    /\ pc' = "returned_again"
    /\ UNCHANGED <<config, tz_offset, now, managerVars, fetcherVars, passVars,
                   boards_to_display, caught, iterations>>

RepeatNext == SelectMode \/ Reschedule \/ SelectAgain

RepeatSpec == RepeatInit /\ [][RepeatNext]_vars

-----------------------------------------------------------------------------
(* The provider: what a request to the scoreboard endpoint can answer *)

EventRecord(id, date, state, home, away) ==
    [id |-> <<id>>, date |-> date, state |-> <<state>>, competitions |-> TRUE,
     home_team_id |-> <<home>>, away_team_id |-> <<away>>]

\* events of the first day: an evening game of team 1 not yet started, a
\* running game of team 1, a finished away game of team 1, and an event whose
\* date text does not parse (team 1 is a favorite in one of the leagues)
PreEvent == EventRecord("e1", [kind |-> "utc", t |-> At(19, 0, 0)], "pre", "1", "2")

LiveEvent == EventRecord("e2", [kind |-> "utc", t |-> At(3, 0, 0)], "in_progress", "1", "2")

PostEvent == EventRecord("e3", [kind |-> "utc", t |-> At(1, 0, 0)], "post", "4", "1")

BadDateEvent == EventRecord("e4", [kind |-> "bad", t |-> 0], "pre", "3", "4")

\* an evening game whose date text carries no time zone
NaiveDateEvent == EventRecord("e11", [kind |-> "naive", t |-> At(19, 0, 0)], "pre", "3", "4")

ProviderEventLists ==
    {<< >>, <<PreEvent>>, <<LiveEvent, PreEvent>>, <<BadDateEvent, PostEvent>>,
     <<NaiveDateEvent>>}

\* JSON bodies of a successful response for a league: with an events list,
\* without the leagues key, the empty dict, and a JSON array
ProviderPayloads(league_id) ==
    {[shape |-> "dict", sport |-> FALSE, leagues |-> <<league_id>>, events |-> <<es>>] :
        es \in ProviderEventLists}
    \cup {[shape |-> "dict", sport |-> FALSE, leagues |-> << >>,
           events |-> << <<LiveEvent>> >>],
          EmptyPayload,
          [shape |-> "list", sport |-> FALSE, leagues |-> << >>, events |-> << >>]}

\* a request fails (HTTP error, connection error, timeout) or answers a body
ProviderResponses(league_id) ==
    {[ok |-> FALSE, data |-> EmptyPayload]}
    \cup {[ok |-> TRUE, data |-> d] : d \in ProviderPayloads(league_id)}

-----------------------------------------------------------------------------
(* The polling loop: ScoreboardManager.run *)

\* configurations of the loop: the check time missing, "04:30", "ab:00" and
\* "25:00" with live mode on, live mode off, and a negative interval for live
\* games of favorite teams (config.json is loaded without validation)
LoopConfigs ==
    {ConfigRecord(<<TRUE>>, << >>, << >>, << >>, << >>, ct) :
        ct \in {<< >>,
                << <<"0", "4", ":", "3", "0">> >>,
                << <<"a", "b", ":", "0", "0">> >>,
                << <<"2", "5", ":", "0", "0">> >>}}
    \cup {ConfigRecord(<<FALSE>>, << >>, << >>, << >>, << >>, << >>),
          ConfigRecord(<<TRUE>>, <<-5>>, << >>, << >>, << >>, << >>)}

Init ==
    /\ pc = "fetch"
    /\ Constructed
    /\ all_games_data = << >>
    /\ config \in LoopConfigs
    /\ tz_offset \in {0, -Seconds(5 * 3600)}
    /\ now \in {At(4, 0, 0), At(23, 55, 0)}

\* _fetch_all_sport_data up to the league loop: the check time, the choice
\* between the full daily fetch and the refresh, the requested date.  The
\* ValueError of time.replace is not caught in the pass and reaches run().
BeginFetchPass ==
    /\ pc = "fetch"
    /\ iterations < MaxIterations
    /\ iterations' = iterations + 1
    /\ LET local_now    == LocalNow(now, tz_offset)
           current_date == DateOf(local_now)
           hm           == FetchCheckTime(config)
       IN  IF ~TimeReplaceOk(hm[1], hm[2])
           THEN /\ caught' = "ValueError"
                /\ pc' = "cooldown"
                /\ UNCHANGED <<managerVars, passVars>>
           ELSE LET today_check_dt == Combine(current_date, hm[1], hm[2])
                    full == \/ IsNewDayForCheck(last_daily_schedule_check_date,
                                                current_date, local_now,
                                                today_check_dt, all_games_data)
                            \/ all_games_data = << >>
                IN  /\ full_fetch' = full
                    /\ last_daily_schedule_check_date' =
                           IF full THEN <<current_date>>
                           ELSE last_daily_schedule_check_date
                    /\ date_str' = current_date
                    /\ all_parsed_games' = << >>
                    /\ fetch_log' = << >>
                    /\ league_index' = 1
                    /\ caught' = "none"
                    /\ pc' = "league"
                    /\ UNCHANGED <<all_games_data, current_display_mode,
                                   last_data_fetch_time>>
    /\ UNCHANGED <<config, tz_offset, now, fetcherVars, ret, boards_to_display>>

\* faulty variant: an exception in one league discards what the pass gathered
GamesAfterLeagueAborting(games, raw_events, league_id, cfg) ==
    IF raw_events.shape = "list" THEN << >>
    ELSE games \o ParseEvents(WithSportAndLeague(raw_events, league_id), cfg)

\* what the pass does with the value get_scoreboard returned: a JSON array
\* makes raw_events["sport"] = ... raise, which the per-league except catches
GamesAfterLeague(games, raw_events, league_id, cfg) ==
    IF raw_events.shape = "list" THEN games
    ELSE games \o ParseEvents(WithSportAndLeague(raw_events, league_id), cfg)

\* what a turn of the league loop came to: the request failed and
\* get_scoreboard logged it and returned {}, the except clause of the pass
\* caught an exception, or the league was fetched and parsed
LeagueOutcome(league_id, cached, request_ok, raw_events) ==
    [league     |-> league_id,
     cached     |-> cached,
     outcome    |-> IF ~request_ok THEN "request_error"
                    ELSE IF raw_events.shape = "list" THEN "exception"
                    ELSE "ok",
     raw_events |-> raw_events]

\* one turn of the league loop: get_scoreboard (cache, rate limit, request),
\* parse_events, extend.  requests.get is called without a timeout: besides
\* answering or failing, the request may never return.
FetchLeague ==
    /\ pc = "league"
    /\ league_index <= Len(config.sports)
    /\ LET league_config == config.sports[league_index]
           league_id     == league_config.id
           key           == CacheKey(league_config.sport, StrOf(league_id), date_str)
       IN  IF league_id = << >>
           THEN /\ league_index' = league_index + 1
                /\ UNCHANGED <<now, fetcherVars, all_parsed_games, fetch_log, pc>>
           ELSE IF CacheHit(cache, key)
           THEN /\ all_parsed_games' =
                       GamesAfterLeague(all_parsed_games, LoadFromCache(cache, key)[1],
                                        league_id[1], config)
                /\ fetch_log' =
                       Append(fetch_log,
                              LeagueOutcome(league_id[1], TRUE, TRUE,
                                            LoadFromCache(cache, key)[1]))
                /\ league_index' = league_index + 1
                /\ UNCHANGED <<now, fetcherVars, pc>>
           ELSE /\ now' = RateLimitedInstant(now, last_request_time)
                /\ last_request_time' = now'
                /\ \/ \E response \in ProviderResponses(league_id[1]) :
                        /\ cache' = CacheAfterRequest(cache, key, response)
                        /\ all_parsed_games' =
                               GamesAfterLeague(all_parsed_games, response.data,
                                                league_id[1], config)
                        /\ fetch_log' =
                               Append(fetch_log,
                                      LeagueOutcome(league_id[1], FALSE, response.ok,
                                                    response.data))
                        /\ league_index' = league_index + 1
                        /\ UNCHANGED pc
                   \/ /\ pc' = "blocked"
                      /\ UNCHANGED <<cache, all_parsed_games, fetch_log, league_index>>
    /\ UNCHANGED <<config, tz_offset, managerVars, full_fetch, date_str, ret,
                   boards_to_display, caught, iterations>>

\* faulty variant: a pass that gathered nothing leaves the list as it was
FinishFetchPassKeepingList ==
    /\ pc = "league"
    /\ league_index > Len(config.sports)
    /\ all_games_data' = IF all_parsed_games = << >> THEN all_games_data
                         ELSE all_parsed_games
    /\ last_data_fetch_time' = <<LocalNow(now, tz_offset)>>
    /\ pc' = "determine"
    /\ UNCHANGED <<config, tz_offset, now, current_display_mode,
                   last_daily_schedule_check_date, fetcherVars, passVars, ret,
                   boards_to_display, caught, iterations>>

\* faulty variant: the games of the pass are added to the list
FinishFetchPassMerging ==
    /\ pc = "league"
    /\ league_index > Len(config.sports)
    /\ all_games_data' = all_games_data \o all_parsed_games
    /\ last_data_fetch_time' = <<LocalNow(now, tz_offset)>>
    /\ pc' = "determine"
    /\ UNCHANGED <<config, tz_offset, now, current_display_mode,
                   last_daily_schedule_check_date, fetcherVars, passVars, ret,
                   boards_to_display, caught, iterations>>

\* faulty variant: the pass may end once the first league has been visited
FinishFetchPassAfterFirstLeague ==
    /\ pc = "league"
    /\ league_index > 1
    /\ all_games_data' = all_parsed_games
    /\ last_data_fetch_time' = <<LocalNow(now, tz_offset)>>
    /\ pc' = "determine"
    /\ UNCHANGED <<config, tz_offset, now, current_display_mode,
                   last_daily_schedule_check_date, fetcherVars, passVars, ret,
                   boards_to_display, caught, iterations>>

\* faulty variant: a refresh keeps the list of the full fetch
FinishFetchPassRefreshKeepingList ==
    /\ pc = "league"
    /\ league_index > Len(config.sports)
    /\ all_games_data' = IF full_fetch THEN all_parsed_games ELSE all_games_data
    /\ last_data_fetch_time' = <<LocalNow(now, tz_offset)>>
    /\ pc' = "determine"
    /\ UNCHANGED <<config, tz_offset, now, current_display_mode,
                   last_daily_schedule_check_date, fetcherVars, passVars, ret,
                   boards_to_display, caught, iterations>>

\* the end of the pass: the list is replaced and the fetch time recorded
FinishFetchPass ==
    /\ pc = "league"
    /\ league_index > Len(config.sports)
    /\ all_games_data' = all_parsed_games
    /\ last_data_fetch_time' = <<LocalNow(now, tz_offset)>>
    /\ pc' = "determine"
    /\ UNCHANGED <<config, tz_offset, now, current_display_mode,
                   last_daily_schedule_check_date, fetcherVars, passVars, ret,
                   boards_to_display, caught, iterations>>

\* faulty variant: the Mode Selector sorts the list it is given in place
DetermineModeSortingInPlace ==
    /\ pc = "determine"
    /\ ret' = DetermineOverallDisplayMode(all_games_data, now, config)
    /\ all_games_data' = SortedByStartTime(all_games_data)
    /\ IF ret'.exc = "none"
       THEN /\ current_display_mode' = ret'.mode
            /\ pc' = "boards"
            /\ UNCHANGED caught
       ELSE /\ caught' = ret'.exc
            /\ pc' = "cooldown"
            /\ UNCHANGED current_display_mode
    /\ UNCHANGED <<config, tz_offset, now,
                   last_daily_schedule_check_date, last_data_fetch_time,
                   fetcherVars, passVars, boards_to_display, iterations>>

\* faulty variant: a selection that raises resets the stored mode
DetermineModeResettingOnError ==
    /\ pc = "determine"
    /\ ret' = DetermineOverallDisplayMode(all_games_data, now, config)
    /\ IF ret'.exc = "none"
       THEN /\ current_display_mode' = ret'.mode
            /\ pc' = "boards"
            /\ UNCHANGED caught
       ELSE /\ caught' = ret'.exc
            /\ pc' = "cooldown"
            /\ current_display_mode' = "no_games_today"
    /\ UNCHANGED <<config, tz_offset, now, all_games_data,
                   last_daily_schedule_check_date, last_data_fetch_time,
                   fetcherVars, passVars, boards_to_display, iterations>>

\* run(): the Mode Selector is called on all_games_data and the mode stored;
\* an exception leaves the assignment undone and reaches the except clause
DetermineMode ==
    /\ pc = "determine"
    /\ ret' = DetermineOverallDisplayMode(all_games_data, now, config)
    /\ IF ret'.exc = "none"
       THEN /\ current_display_mode' = ret'.mode
            /\ pc' = "boards"
            /\ UNCHANGED caught
       ELSE /\ caught' = ret'.exc
            /\ pc' = "cooldown"
            /\ UNCHANGED current_display_mode
    /\ UNCHANGED <<config, tz_offset, now, all_games_data,
                   last_daily_schedule_check_date, last_data_fetch_time,
                   fetcherVars, passVars, boards_to_display, iterations>>

\* run(): the boards configured for the mode
LookupBoards ==
    /\ pc = "boards"
    /\ boards_to_display' = BoardsFor(config, current_display_mode)
    /\ pc' = "sleep"
    /\ UNCHANGED <<config, tz_offset, now, managerVars, fetcherVars, passVars,
                   ret, caught, iterations>>

\* faulty variant: the loop sleeps the default no-games interval
SleepNoGamesInterval ==
    /\ pc = "sleep"
    /\ now' = now + Seconds(900)
    /\ pc' = "fetch"
    /\ UNCHANGED <<config, tz_offset, managerVars, fetcherVars, passVars, ret,
                   boards_to_display, caught, iterations>>

\* run(): time.sleep(next_refresh_interval); time.sleep raises ValueError on
\* a negative length
Sleep ==
    /\ pc = "sleep"
    /\ IF ret.sleep < 0
       THEN /\ caught' = "ValueError"
            /\ pc' = "cooldown"
            /\ UNCHANGED now
       ELSE /\ now' = now + Seconds(ret.sleep)
            /\ pc' = "fetch"
            /\ UNCHANGED caught
    /\ UNCHANGED <<config, tz_offset, managerVars, fetcherVars, passVars, ret,
                   boards_to_display, iterations>>

\* faulty variant: the except clause sleeps the interval of the last mode
CooldownModeInterval ==
    /\ pc = "cooldown"
    /\ now' = now + Seconds(IF ret.sleep > 0 THEN ret.sleep ELSE 0)
    /\ pc' = "fetch"
    /\ UNCHANGED <<config, tz_offset, managerVars, fetcherVars, passVars, ret,
                   boards_to_display, caught, iterations>>

\* run(): the except clause, time.sleep(30)
Cooldown ==
    /\ pc = "cooldown"
    /\ now' = now + Seconds(30)
    /\ pc' = "fetch"
    /\ UNCHANGED <<config, tz_offset, managerVars, fetcherVars, passVars, ret,
                   boards_to_display, caught, iterations>>

Next ==
    \/ BeginFetchPass
    \/ FetchLeague
    \/ FinishFetchPass
    \/ DetermineMode
    \/ LookupBoards
    \/ Sleep
    \/ Cooldown

Spec == Init /\ [][Next]_vars

\* the loop runs in a single thread that is never starved: a step that can be
\* taken is taken
FairSpec == Spec /\ WF_vars(Next)

-----------------------------------------------------------------------------
(* Specification of the Event Parser alone: one call of parse_events on each
   payload.  The payload is held as the one entry of the pass record. *)

\* further events of a payload: a running game in the provider's own state
\* text, and events lacking the date, the competitions, the id, the state or
\* the home team's id
InEvent == EventRecord("e5", [kind |-> "utc", t |-> At(3, 0, 0)], "in", "1", "2")

NoDateEvent == EventRecord("e6", [kind |-> "none", t |-> 0], "pre", "1", "2")

NoCompetitionsEvent == [PreEvent EXCEPT !.id = <<"e7">>, !.competitions = FALSE]

NoIdEvent == [PreEvent EXCEPT !.id = << >>]

NoStateEvent == [PreEvent EXCEPT !.id = <<"e8">>, !.state = << >>]

NoHomeTeamEvent == [PostEvent EXCEPT !.id = <<"e9">>, !.home_team_id = << >>]

\* a game between two teams that are nobody's favorites
OtherTeamsEvent == EventRecord("e10", [kind |-> "utc", t |-> At(20, 0, 0)], "pre", "3", "4")

ParserEvents ==
    {PreEvent, LiveEvent, PostEvent, InEvent, BadDateEvent, NoDateEvent,
     NoCompetitionsEvent, NoIdEvent, NoStateEvent, NoHomeTeamEvent,
     OtherTeamsEvent}

\* payloads handed to parse_events: every list of up to MaxGames events
\* without the leagues key and with the slug of either configured league, a dict without the events key, the
\* empty dict and a JSON array
ParserPayloads ==
    {[shape |-> "dict", sport |-> TRUE, leagues |-> ls, events |-> <<es>>] :
        ls \in {<< >>, <<"nfl">>, <<"mlb">>},
        es \in SeqsUpTo(ParserEvents, MaxGames)}
    \cup {[shape |-> "dict", sport |-> TRUE, leagues |-> <<"nfl">>, events |-> << >>],
          EmptyPayload,
          [shape |-> "list", sport |-> FALSE, leagues |-> << >>, events |-> << >>]}

ParserInit ==
    /\ pc = "parse"
    /\ config = ConfigRecord(<<TRUE>>, << >>, << >>, << >>, << >>, << >>)
    /\ tz_offset = 0
    /\ now = At(4, 0, 0)
    /\ all_games_data = << >>
    /\ current_display_mode = "no_games_today"
    /\ last_data_fetch_time = << >>
    /\ last_daily_schedule_check_date = << >>
    /\ cache = {}
    /\ last_request_time = 0
    /\ all_parsed_games = << >>
    /\ league_index = 0
    /\ full_fetch = FALSE
    /\ date_str = 0
    /\ \E raw_data \in ParserPayloads :
           fetch_log = <<[league |-> "nfl", cached |-> FALSE, outcome |-> "ok",
                          raw_events |-> raw_data]>>
    /\ ret = RetInit
    /\ boards_to_display = << >>
    /\ caught = "none"
    /\ iterations = 0

\* parse_events(raw_data): the games returned; the exception of an event is
\* caught inside the loop and nothing is raised
ParsePayload ==
    /\ pc = "parse"
    /\ all_parsed_games' = ParseEvents(fetch_log[1].raw_events, config)
    /\ pc' = "parsed"
    /\ UNCHANGED <<config, tz_offset, now, managerVars, fetcherVars, league_index,
                   full_fetch, date_str, fetch_log, ret, boards_to_display,
                   caught, iterations>>

ParserNext == ParsePayload

ParserSpec == ParserInit /\ [][ParserNext]_vars

-----------------------------------------------------------------------------
(* Vocabulary of the properties: the inputs of a call, read from the state *)

Called == pc = "returned"

ReturnedOk == Called /\ ret.exc = "none"

GameIndexes == 1..Len(all_games_data)

HasLiveFavorite ==
    \E i \in GameIndexes : /\ all_games_data[i].status_state = "in_progress"
                           /\ all_games_data[i].is_favorite

HasLiveOther ==
    \E i \in GameIndexes : /\ all_games_data[i].status_state = "in_progress"
                           /\ ~all_games_data[i].is_favorite

HasInProgress == \E i \in GameIndexes : all_games_data[i].status_state = "in_progress"

HasPre == \E i \in GameIndexes : all_games_data[i].status_state = "pre"

UpcomingStarts ==
    {all_games_data[i].start_time : i \in {j \in GameIndexes :
        /\ all_games_data[j].status_state = "pre"
        /\ all_games_data[j].start_time > now}}

HasUpcomingPre == UpcomingStarts # {}

\* start_time - now of the earliest upcoming pre game, in ticks
EarliestUpcomingDelta ==
    (CHOOSE t \in UpcomingStarts : \A u \in UpcomingStarts : t <= u) - now

\* start_time - now of the earliest pre game, upcoming or not, in ticks
EarliestPreDelta ==
    LET starts == {all_games_data[i].start_time : i \in {j \in GameIndexes :
                       all_games_data[j].status_state = "pre"}}
    IN  (CHOOSE t \in starts : \A u \in starts : t <= u) - now

HasPostFavorite ==
    \E i \in GameIndexes : /\ all_games_data[i].status_state = "post"
                           /\ all_games_data[i].is_favorite

HasPostOther ==
    \E i \in GameIndexes : /\ all_games_data[i].status_state = "post"
                           /\ ~all_games_data[i].is_favorite

HasPost == \E i \in GameIndexes : all_games_data[i].status_state = "post"

LiveModeOn == config.display_settings.live_mode_enabled = <<TRUE>>

\* a configured interval, or the default the code uses when the key is missing
IntervalOr(entry, default) == IF Len(entry) = 0 THEN default ELSE entry[1]

FavLiveInterval == IntervalOr(config.refresh_intervals.in_progress_favorite_team, 5)

OtherLiveInterval == IntervalOr(config.refresh_intervals.in_progress_other_games, 15)

PrePostInterval == IntervalOr(config.refresh_intervals.pre_game_post_game, 300)

NoGamesInterval == IntervalOr(config.refresh_intervals.no_games, 900)

\* s is x seconds rounded down, x given in ticks
IsFloorOf(s, x) == Seconds(s) <= x /\ x < Seconds(s + 1)

\* the mode of the first rule that matches, in the order of the spec
FirstMatchingRule ==
    IF LiveModeOn /\ HasLiveFavorite THEN "live_favorites"
    ELSE IF HasLiveOther THEN "in_progress_games"
    ELSE IF HasUpcomingPre THEN "pre_game_scheduled"
    ELSE IF HasPostFavorite THEN "post_game_finished_favorite"
    ELSE IF HasPostOther THEN "post_game_finished_all"
    ELSE "no_games_today"

-----------------------------------------------------------------------------
(* Properties of the Mode Selector *)

\* C1: with live_mode_enabled true and at least one in_progress favorite game
\* in the list, the call returns live_favorites with the
\* in_progress_favorite_team interval as sleep, whatever else is in the list.
C1_LiveFavoritesFirst ==
    Called /\ LiveModeOn /\ HasLiveFavorite
        => ret = [exc |-> "none", mode |-> "live_favorites", sleep |-> FavLiveInterval]

C1_Witness ==
    /\ Called /\ LiveModeOn /\ HasLiveFavorite /\ HasLiveOther
    /\ Len(all_games_data) = MaxGames
    /\ ret.mode = "live_favorites" /\ ret.sleep = 45

\* C2: the mode returned is that of the first matching rule in the order
\* live_favorites > in_progress_games > pre_game_scheduled >
\* post_game_finished_favorite > post_game_finished_all > no_games_today, and
\* whenever one of the five game rules matches the call returns.
C2_FirstMatchingRuleWins ==
    Called =>
        /\ ret.exc = "none" => ret.mode = FirstMatchingRule
        /\ FirstMatchingRule # "no_games_today" => ret.exc = "none"

C2_Witness ==
    /\ Called /\ HasUpcomingPre /\ HasPostFavorite
    /\ ret.mode = "pre_game_scheduled"

\* C3 (as claimed): no_games_today is returned only when the list holds no
\* in-progress game, no pre game with start_time > now and no post game.
C3_NoGamesOnlyWhenNothingRelevant ==
    Called /\ ret.mode = "no_games_today"
        => ~HasInProgress /\ ~HasUpcomingPre /\ ~HasPost

\* C4 (as claimed): every sleep value returned is at least 30 seconds.
C4_EverySleepAtLeast30 == ReturnedOk => ret.sleep >= 30

\* C4 (amended): the sleep is at least 30 seconds in no_games_today mode and
\* in the far-future pre-game case; a sleep below 30 is the configured (or
\* default) interval of the returned mode, passed through unclamped.
C4_ComputedSleepAtLeast30 ==
    ReturnedOk =>
        /\ ret.mode = "no_games_today" => ret.sleep >= 30
        /\ (ret.mode = "pre_game_scheduled" /\ EarliestUpcomingDelta >= Seconds(300))
               => ret.sleep >= 30
        /\ ret.sleep < 30 =>
               \/ ret.mode = "live_favorites" /\ ret.sleep = FavLiveInterval
               \/ ret.mode = "in_progress_games" /\ ret.sleep = OtherLiveInterval
               \/ /\ ret.mode \in {"pre_game_scheduled", "post_game_finished_favorite",
                                   "post_game_finished_all"}
                  /\ ret.sleep = PrePostInterval

C4_Witness ==
    /\ ReturnedOk /\ ret.mode = "no_games_today" /\ ret.sleep = 30
    /\ NoGamesInterval < 30

\* C5 (as claimed): with no live game and the earliest pre game starting at
\* or before now, the call returns pre_game_scheduled with sleep
\* min(pre_game_post_game, 60).
C5_PastPreGamePolledWithinAMinute ==
    Called /\ ~HasInProgress /\ HasPre /\ EarliestPreDelta <= 0
        => ret = [exc |-> "none", mode |-> "pre_game_scheduled",
                  sleep |-> IF PrePostInterval <= 60 THEN PrePostInterval ELSE 60]

\* C6: with no live game and the earliest upcoming pre game starting delta
\* seconds after now, 0 < delta < 300, the call returns pre_game_scheduled
\* with the configured pre_game_post_game interval as sleep.
C6_NearPreGame ==
    (/\ Called /\ ~HasInProgress /\ HasUpcomingPre
     /\ EarliestUpcomingDelta > 0 /\ EarliestUpcomingDelta < Seconds(300))
        => ret = [exc |-> "none", mode |-> "pre_game_scheduled",
                  sleep |-> PrePostInterval]

C6_Witness ==
    /\ Called /\ ~HasInProgress /\ HasUpcomingPre
    /\ EarliestUpcomingDelta = Seconds(150)
    /\ Len(all_games_data) = MaxGames
    /\ ret.mode = "pre_game_scheduled" /\ ret.sleep = 120

C8_FarSleepWithinInterval ==
    (/\ ReturnedOk /\ ret.mode = "pre_game_scheduled"
     /\ EarliestUpcomingDelta >= Seconds(300))
        => ret.sleep >= 30 /\ ret.sleep <= PrePostInterval

\* C8 (amended): in the far-future pre-game case the sleep is never less than
\* 30 and never more than the larger of pre_game_post_game and 30.
C8_FarSleepWithinClampedInterval ==
    (/\ ReturnedOk /\ ret.mode = "pre_game_scheduled"
     /\ EarliestUpcomingDelta >= Seconds(300))
        => /\ ret.sleep >= 30
           /\ ret.sleep <= (IF PrePostInterval >= 30 THEN PrePostInterval ELSE 30)

C8_Witness ==
    /\ ReturnedOk /\ ret.mode = "pre_game_scheduled"
    /\ EarliestUpcomingDelta >= Seconds(300)
    /\ PrePostInterval = 10 /\ ret.sleep = 30

\* the check time the configuration denotes: the configured HH:MM, and 05:00
\* when the key is missing or the text is not of the form HH:MM
DenotedCheckTime ==
    IF config.refresh_intervals.daily_schedule_check_time
           = << <<"0", "4", ":", "3", "0">> >>
    THEN <<4, 30>>
    ELSE <<5, 0>>

\* the configured text has two integer fields with hour or minute out of range
CheckTimeOutOfRange ==
    config.refresh_intervals.daily_schedule_check_time
        \in {<< <<"2", "5", ":", "0", "0">> >>, << <<"1", "2", ":", "7", "5">> >>}

\* the next instant strictly after now at which the clock shows the check time
NextCheck ==
    LET midnight == now - (now % TicksPerDay)
        today    == midnight
                      + Seconds(DenotedCheckTime[1] * 3600 + DenotedCheckTime[2] * 60)
    IN  IF today > now THEN today ELSE today + TicksPerDay

\* C9: for an empty game list the call returns no_games_today with sleep
\* max(min(seconds_until(next_check), no_games), 30) in whole seconds, where
\* next_check is today's check time if strictly after now and tomorrow's
\* otherwise; it returns whenever the check time is a time of day.
C9_EmptyListSleepsUntilNextCheck ==
    Called /\ all_games_data = << >> =>
        /\ ~CheckTimeOutOfRange => ret.exc = "none"
        /\ ret.exc = "none" =>
              /\ ret.mode = "no_games_today"
              /\ LET until   == NextCheck - now
                     capped  == IF until <= Seconds(NoGamesInterval)
                                THEN until ELSE Seconds(NoGamesInterval)
                     floored == IF capped >= Seconds(30) THEN capped ELSE Seconds(30)
                 IN  IsFloorOf(ret.sleep, floored)

C9_Witness ==
    /\ Called /\ all_games_data = << >>
    /\ now = At(4, 0, 0)
    /\ config.refresh_intervals.daily_schedule_check_time = <<DefaultCheckTime>>
    /\ NoGamesInterval = 7200
    /\ ret.mode = "no_games_today" /\ ret.sleep = 3600

-----------------------------------------------------------------------------
(* Properties of the polling loop *)

\* the configured check time is a text that is not a valid HH:MM time
CheckTimeNotValid ==
    config.refresh_intervals.daily_schedule_check_time
        \in {<< <<"a", "b", ":", "0", "0">> >>,
             << <<"5">> >>,
             << <<"1", ":", "2", ":", "3">> >>,
             << <<"2", "5", ":", "0", "0">> >>,
             << <<"1", "2", ":", "7", "5">> >>}

\* C10 (as claimed): with a daily_schedule_check_time that is not a valid
\* HH:MM time (non-numeric, wrong number of fields, hour or minute out of
\* range) the fetch pass and the Mode Selector complete without raising: no
\* exception reaches the except clause of the loop.
C10_InvalidCheckTimeNeverRaises ==
    CheckTimeNotValid => caught = "none" /\ pc # "cooldown"


-----------------------------------------------------------------------------
(* Fetch passes, read from the record of the pass *)

\* a fetch pass has just completed: run() is about to call the Mode Selector
FetchPassCompleted == pc = "determine"

\* the configured leagues a pass visits
LeaguesWithId == {i \in 1..Len(config.sports) : config.sports[i].id # << >>}

LeagueFailed(entry) == entry.outcome \in {"request_error", "exception"}

LeagueSucceeded(entry) == entry.outcome = "ok"

SomeLeagueFailed == \E i \in 1..Len(fetch_log) : LeagueFailed(fetch_log[i])

SomeLeagueSucceeded == \E i \in 1..Len(fetch_log) : LeagueSucceeded(fetch_log[i])

\* the games the parser makes of what a league's fetch returned
GamesParsedFor(entry) ==
    ParseEvents(WithSportAndLeague(entry.raw_events, entry.league), config)

GamesOfLeague(games, league) == SelectSeq(games, LAMBDA g : g.league = league)

\* C11: when a fetch pass (full or incremental) has completed in which the
\* fetch or the parse of some league failed, every configured league was
\* visited, all_games_data holds for each league that succeeded exactly the
\* games parsed for it, holds no game of a league that failed and no other
\* game, and no exception has left the pass.
C11_FailedLeagueIsIsolated ==
    (FetchPassCompleted /\ SomeLeagueFailed) =>
        /\ Len(fetch_log) = Cardinality(LeaguesWithId)
        /\ \A i \in 1..Len(fetch_log) :
               GamesOfLeague(all_games_data, fetch_log[i].league) =
                   IF LeagueSucceeded(fetch_log[i])
                   THEN GamesParsedFor(fetch_log[i]) ELSE << >>
        /\ \A k \in 1..Len(all_games_data) :
               \E i \in 1..Len(fetch_log) :
                   all_games_data[k].league = fetch_log[i].league
        /\ caught = "none"

\* a pass, full or incremental, whose first league gave games and whose
\* second league raised in the pass
C11_Witness ==
    /\ FetchPassCompleted
    /\ Len(fetch_log) = 2
    /\ LeagueSucceeded(fetch_log[1]) /\ GamesParsedFor(fetch_log[1]) # << >>
    /\ fetch_log[2].outcome = "exception"
    /\ all_games_data = GamesParsedFor(fetch_log[1])
    /\ ~full_fetch


-----------------------------------------------------------------------------
(* The loop and its except clause *)

\* the step about to be taken raises an exception that nothing below run()
\* catches: time.replace in the fetch pass or in the Mode Selector, time.sleep
\* on a negative length
ExceptionEscapes ==
    \/ pc = "fetch" /\ iterations < MaxIterations /\ CheckTimeOutOfRange
    \/ /\ pc = "determine"
       /\ DetermineOverallDisplayMode(all_games_data, now, config).exc # "none"
    \/ pc = "sleep" /\ ret.sleep < 0

C12_Step ==
    /\ (ExceptionEscapes /\ pc' # pc) => (pc' = "cooldown" /\ caught' # "none")
    /\ (pc' = "cooldown" /\ pc # "cooldown") => ExceptionEscapes
    /\ (pc = "cooldown" /\ pc' # pc) =>
           /\ now' = now + Seconds(30)
           /\ pc' = "fetch"
           /\ UNCHANGED <<managerVars, iterations>>

\* C12: whenever an exception escapes the fetch pass, the mode selection, the
\* board lookup or the sleep, the next step of the loop is its except clause;
\* the except clause sleeps exactly 30 seconds, whatever interval the Mode
\* Selector returned, and hands control back to the top of the loop.
C12_EscapedExceptionCoolsDown30 == [][C12_Step]_vars

\* the second pass is under way, started 30 seconds or more after the first:
\* time.sleep raised on the negative interval of live_favorites, the except
\* clause slept and the loop went on
C12_Witness ==
    /\ pc = "league"
    /\ iterations = 2
    /\ ret.mode = "live_favorites" /\ ret.sleep < 0
    /\ last_data_fetch_time # << >>
    /\ now >= last_data_fetch_time[1] - tz_offset + Seconds(30)


\* C13 (as claimed): the loop never stops on its own: under fairness, from
\* every reachable state, whatever failed before, another fetch pass is
\* eventually started (as far as the model follows the loop: every pass but
\* the last one counted is followed by the start of another).
C13_AnotherFetchPassEventuallyStarted ==
    \A n \in 0..(MaxIterations - 1) : (iterations = n) ~> (iterations = n + 1)


\* the order of an iteration: where control can go from each position
IterationOrder ==
    {<<"fetch", "league">>, <<"league", "league">>, <<"league", "determine">>,
     <<"determine", "boards">>, <<"boards", "sleep">>, <<"sleep", "fetch">>}

\* where control goes when an exception is raised or a request never returns
LeavesIteration ==
    {<<"fetch", "cooldown">>, <<"determine", "cooldown">>, <<"sleep", "cooldown">>,
     <<"cooldown", "fetch">>, <<"league", "blocked">>}

C14_Step ==
    /\ <<pc, pc'>> \in IterationOrder \cup LeavesIteration
    \* one fetch pass, started at the top of the loop
    /\ iterations' # iterations => (pc = "fetch" /\ iterations' = iterations + 1)
    /\ all_games_data' # all_games_data => <<pc, pc'>> = <<"league", "determine">>
    /\ <<pc, pc'>> = <<"league", "determine">> =>
           /\ Len(fetch_log) = Cardinality(LeaguesWithId)
           /\ all_games_data' = all_parsed_games
    \* then one mode selection, on the list of that pass
    /\ ret' # ret => pc = "determine"
    /\ <<pc, pc'>> = <<"determine", "boards">> =>
           /\ ret' = DetermineOverallDisplayMode(all_games_data, now, config)
           /\ current_display_mode' = ret'.mode
    \* then one sleep, of the duration returned
    /\ <<pc, pc'>> = <<"sleep", "fetch">> =>
           /\ now' = now + Seconds(ret.sleep)
           /\ ret.mode = current_display_mode
    /\ (now' # now /\ pc # "league") =>
           \/ <<pc, pc'>> = <<"sleep", "fetch">>
           \/ <<pc, pc'>> = <<"cooldown", "fetch">>

\* C14: control goes through an iteration in one order: one fetch pass,
\* started at the top of the loop and ended by the replacement of
\* all_games_data; then one call of the Mode Selector, on that list; then one
\* sleep, of the duration that call returned; only then the next iteration.
\* Nothing else changes the list, the returned pair or (outside the rate
\* limiter and the cooldown) the clock.
C14_OnePassOneSelectionOneSleep == [][C14_Step]_vars

\* an iteration without exception is over: the clock is the end of its pass
\* plus the 300 seconds its selection returned for post_game_finished_all
C14_Witness ==
    /\ pc = "fetch"
    /\ iterations = 1
    /\ caught = "none"
    /\ ret.mode = "post_game_finished_all" /\ ret.sleep = 300
    /\ last_data_fetch_time # << >>
    /\ now = last_data_fetch_time[1] - tz_offset + Seconds(300)


-----------------------------------------------------------------------------
(* Full daily fetch or refresh *)

\* today, and the instant of today's check time, on the local clock
Today == DateOf(now + tz_offset)

TodaysCheckTime ==
    Today * TicksPerDay + Seconds(DenotedCheckTime[1] * 3600 + DenotedCheckTime[2] * 60)

FullFetchDue ==
    \/ last_daily_schedule_check_date = << >>
    \/ last_daily_schedule_check_date # << >>
           /\ last_daily_schedule_check_date[1] < Today
    \/ /\ last_daily_schedule_check_date = <<Today>>
       /\ now + tz_offset >= TodaysCheckTime
       /\ all_games_data = << >>
    \/ all_games_data = << >>

C15_Step ==
    <<pc, pc'>> = <<"fetch", "league">> =>
        /\ full_fetch' <=> FullFetchDue
        /\ last_daily_schedule_check_date' =
               IF FullFetchDue THEN <<Today>> ELSE last_daily_schedule_check_date
        /\ date_str' = Today

\* C15: a fetch pass that starts is a full daily fetch (which records today
\* as the check date) exactly when no check date is recorded, or the
\* recorded date is before today, or the recorded date is today and the
\* local time is at or after today's check time and all_games_data is
\* empty, or all_games_data is empty; otherwise it is an incremental
\* refresh, which leaves the recorded date alone.  Both request today's date.
C15_FullFetchExactlyWhenDue == [][C15_Step]_vars

\* the second pass is a full fetch only because the day changed: the list
\* of the first pass holds games and the check time of the new day is ahead
C15_Witness ==
    /\ pc = "league"
    /\ iterations = 2
    /\ full_fetch
    /\ all_games_data # << >>
    /\ last_daily_schedule_check_date = <<Today>>
    /\ now + tz_offset < TodaysCheckTime


-----------------------------------------------------------------------------
(* The list a pass leaves *)

\* no pass is under way: all_games_data and the record are of the same pass
NoPassUnderWay == pc \notin {"league", "blocked"}

\* the games the pass parsed for a league: none when the fetch or the parse
\* of the league failed
ParsedInPass(entry) ==
    IF LeagueSucceeded(entry) THEN GamesParsedFor(entry) ELSE << >>

RECURSIVE ConcatenatedGames(_)
ConcatenatedGames(log) ==
    IF log = << >> THEN << >>
    ELSE ParsedInPass(Head(log)) \o ConcatenatedGames(Tail(log))

\* the record of a pass lists the configured leagues in configuration order
InConfigurationOrder ==
    \A i \in 1..Len(fetch_log) : <<fetch_log[i].league>> = config.sports[i].id

\* C16: whenever no pass is under way, all_games_data is exactly the
\* concatenation, in configuration order, of the games the latest completed
\* pass (full or incremental) parsed for each league; nothing of an earlier
\* pass is in it unless that pass parsed it again.
C16_ListIsConcatenationOfLatestPass ==
    NoPassUnderWay =>
        /\ InConfigurationOrder
        /\ all_games_data = ConcatenatedGames(fetch_log)

\* the second pass has completed with games, and the finished game that made
\* the first pass select post_game_finished_all is no longer in the list
C16_Witness ==
    /\ FetchPassCompleted
    /\ iterations = 2
    /\ ret.mode = "post_game_finished_all"
    /\ all_games_data # << >>
    /\ \A k \in 1..Len(all_games_data) : all_games_data[k].status_state # "post"


-----------------------------------------------------------------------------
(* What an incremental refresh fetches *)

\* the pass just completed was an incremental refresh
RefreshCompleted == FetchPassCompleted /\ ~full_fetch

\* the league's data in the pass is what the provider answered to a request
\* of this pass, not what an earlier request left in the fetcher's cache
FetchedFromProvider(entry) == ~entry.cached

\* C17 (as claimed): an incremental refresh fetches every configured (sport,
\* league) pair from the provider again, so that the games
\* in all_games_data after it are parsed from the provider's current data
\* and hold any status or score that changed since the previous pass.
C17_RefreshFetchesEveryLeagueAgain ==
    RefreshCompleted =>
        /\ Len(fetch_log) = Cardinality(LeaguesWithId)
        /\ \A i \in 1..Len(fetch_log) : FetchedFromProvider(fetch_log[i])


-----------------------------------------------------------------------------
(* A pass in which every league fails *)

AllLeaguesFailed ==
    /\ LeaguesWithId # {}
    /\ Len(fetch_log) = Cardinality(LeaguesWithId)
    /\ \A i \in 1..Len(fetch_log) : LeagueFailed(fetch_log[i])

\* C18: when every configured league failed in a pass, the pass has
\* completed without an exception and left all_games_data empty, the Mode
\* Selector called next returns without raising, and from then to the end of
\* the iteration current_display_mode is no_games_today, whatever it was.
C18_AllLeaguesFailedDegradesToNoGames ==
    /\ (AllLeaguesFailed /\ FetchPassCompleted) =>
           /\ all_games_data = << >>
           /\ caught = "none"
           /\ DetermineOverallDisplayMode(all_games_data, now, config).exc = "none"
    /\ (AllLeaguesFailed /\ pc \in {"boards", "sleep"}) =>
           /\ all_games_data = << >>
           /\ caught = "none"
           /\ current_display_mode = "no_games_today"
           /\ ret.mode = "no_games_today"

\* the first pass, the day before, found games; in the second pass the request
\* of one league failed and the other league raised, and the iteration ends
\* in no_games_today
C18_Witness ==
    /\ pc = "sleep"
    /\ iterations = 2
    /\ AllLeaguesFailed
    /\ last_daily_schedule_check_date = <<Today>>
    /\ fetch_log[1].outcome = "request_error"
    /\ fetch_log[2].outcome = "exception"
    /\ current_display_mode = "no_games_today"
    /\ \E key \in {c.key : c \in cache} :
           /\ key[3] < Today
           /\ GamesParsedFor([league |-> key[2],
                               raw_events |-> LoadFromCache(cache, key)[1]]) # << >>


-----------------------------------------------------------------------------
(* The boards of the mode *)

ModeHasEntry(mode) == config.display_modes[mode] # << >>

ModeHasBoards(mode) ==
    ModeHasEntry(mode) /\ config.display_modes[mode][1].boards # << >>

\* display_modes[mode].boards of the configuration, the empty list when the
\* mode has no entry or the entry no boards
ConfiguredBoards(mode) ==
    IF ModeHasBoards(mode) THEN config.display_modes[mode][1].boards[1] ELSE << >>

C19_Step ==
    /\ (pc = "boards" /\ pc' # pc) =>
           /\ pc' = "sleep"
           /\ current_display_mode = ret.mode
           /\ boards_to_display' = ConfiguredBoards(ret.mode)
           /\ caught' = "none"
    /\ (pc = "sleep" /\ boards_to_display = << >> /\ ret.sleep >= 0 /\ pc' # pc) =>
           /\ pc' = "fetch"
           /\ now' = now + Seconds(ret.sleep)
           /\ caught' = "none"

\* C19: in every iteration the board list looked up is the list configured
\* under display_modes[mode].boards for the mode the Mode Selector has just
\* returned, and the empty list when that mode has no entry or its entry no
\* boards; the lookup raises nothing, and with an empty board list the
\* iteration goes on to sleep the interval the Mode Selector returned.
C19_BoardsOfTheReturnedMode == [][C19_Step]_vars

\* an iteration has ended with an empty board list and the sleep of its
\* mode: pre_game_scheduled, configured without boards
C19_Witness ==
    /\ pc = "fetch"
    /\ iterations = 1
    /\ caught = "none"
    /\ current_display_mode = "pre_game_scheduled"
    /\ ModeHasEntry("pre_game_scheduled") /\ ~ModeHasBoards("pre_game_scheduled")
    /\ boards_to_display = << >>
    /\ last_data_fetch_time # << >>
    /\ ret.sleep > 0
    /\ now = last_data_fetch_time[1] - tz_offset + Seconds(ret.sleep)


-----------------------------------------------------------------------------
(* The stored mode *)

\* no call of the Mode Selector has returned yet: none has been made, or
\* the only one made, in the first iteration, raised
NoSelectionYet == ret = RetInit \/ (iterations = 1 /\ ret.mode = "none")

\* C20: in every reachable state current_display_mode is one of the six
\* modes, and it is no_games_today before the first iteration and until the
\* first call of the Mode Selector returns.
C20_ModeIsOneOfSix ==
    /\ current_display_mode \in
           {"live_favorites", "in_progress_games", "pre_game_scheduled",
            "post_game_finished_favorite", "post_game_finished_all",
            "no_games_today"}
    /\ (iterations = 0 \/ NoSelectionYet) => current_display_mode = "no_games_today"

\* the stored mode has left its initial value and come back to it
C20_Witness ==
    /\ pc = "boards"
    /\ iterations = 2
    /\ ret.mode = "no_games_today"
    /\ current_display_mode = "no_games_today"
    /\ boards_to_display # <<"clock", "weather">>


-----------------------------------------------------------------------------
(* The Mode Selector as a function of its inputs *)

\* the second of two calls on the same inputs is returning
SecondCallReturns == pc = "rescheduled" /\ pc' = "returned_again"

SelectionStep == pc = "determine" /\ pc' # pc

C22_Step ==
    /\ SelectionStep =>
           /\ UNCHANGED <<all_games_data, last_daily_schedule_check_date,
                           last_data_fetch_time>>
           /\ current_display_mode' =
                  IF ret'.exc = "none" THEN ret'.mode ELSE current_display_mode
    /\ current_display_mode' # current_display_mode =>
           /\ SelectionStep
           /\ ret'.exc = "none"
           /\ current_display_mode' = ret'.mode

\* C22: the call of the Mode Selector leaves all_games_data,
\* last_daily_schedule_check_date and last_data_fetch_time as they were, and
\* current_display_mode has after it the mode the call returned, stored by
\* the loop (its old value when the call raised); no other step of the loop
\* changes current_display_mode.
C22_SelectorChangesNothingButTheStoredMode == [][C22_Step]_vars

\* a call has returned in_progress_games on a list of two leagues that is not
\* in start-time order; the list and the fetch time are those of the pass
C22_Witness ==
    /\ pc = "boards"
    /\ current_display_mode = "in_progress_games"
    /\ Len(all_games_data) >= 2
    /\ all_games_data[1].start_time > all_games_data[2].start_time
    /\ all_games_data = all_parsed_games
    /\ last_data_fetch_time = <<LocalNow(now, tz_offset)>>


-----------------------------------------------------------------------------
(* Finished games of favorite teams *)

\* C23: for every game list with no in-progress game and no pre game that
\* starts after now, in which some post game is a favorite's, the call
\* returns post_game_finished_favorite (with the pre_game_post_game
\* interval), never post_game_finished_all, whether or not finished games
\* of other teams are in the list too.
C23_FavoritePostGameWins ==
    (Called /\ ~HasInProgress /\ ~HasUpcomingPre /\ HasPostFavorite) =>
        /\ ret.exc = "none"
        /\ ret.mode = "post_game_finished_favorite"
        /\ ret.sleep = PrePostInterval

\* a favorite's finished game listed after the finished game of other teams
C23_Witness ==
    /\ Called
    /\ Len(all_games_data) = 2
    /\ all_games_data[1].status_state = "post" /\ ~all_games_data[1].is_favorite
    /\ all_games_data[2].status_state = "post" /\ all_games_data[2].is_favorite
    /\ ret.mode = "post_game_finished_favorite"

-----------------------------------------------------------------------------
(* Whole seconds *)

\* the far-future branch was taken: the earliest upcoming pre game is 300 s
\* or more away
FarFutureCase ==
    /\ ret.mode = "pre_game_scheduled"
    /\ HasUpcomingPre
    /\ EarliestUpcomingDelta >= Seconds(300)

\* what the far-future branch and the no-games branch compute before int(),
\* in ticks
FarFutureUnrounded ==
    LET lead   == EarliestUpcomingDelta - Seconds(60)
        capped == IF lead <= Seconds(PrePostInterval) THEN lead
                  ELSE Seconds(PrePostInterval)
    IN  IF capped >= Seconds(30) THEN capped ELSE Seconds(30)

NoGamesUnrounded ==
    LET until  == NextCheck - now
        capped == IF until <= Seconds(NoGamesInterval) THEN until
                  ELSE Seconds(NoGamesInterval)
    IN  IF capped >= Seconds(30) THEN capped ELSE Seconds(30)

\* C24: the sleep returned is a whole number of seconds: in the far-future
\* pre-game case and in no_games_today it is the computed value, which can
\* have a fractional part, rounded down; in every other case it is one of
\* the configured intervals (whole seconds) or 60.
C24_SleepIsWholeSecondsRoundedDown ==
    ReturnedOk =>
        /\ ret.sleep \in Int
        /\ FarFutureCase => IsFloorOf(ret.sleep, FarFutureUnrounded)
        /\ ret.mode = "no_games_today" => IsFloorOf(ret.sleep, NoGamesUnrounded)
        /\ (~FarFutureCase /\ ret.mode # "no_games_today") =>
               ret.sleep \in {FavLiveInterval, OtherLiveInterval, PrePostInterval, 60}

\* half a second after 04:00 with the check at 05:00 and a no_games interval
\* of 7200: the 3599.5 seconds to the check are returned as 3599
C24_Witness ==
    /\ ReturnedOk
    /\ ret.mode = "no_games_today"
    /\ NoGamesUnrounded = NextCheck - now
    /\ NoGamesUnrounded % TicksPerSecond # 0
    /\ Seconds(ret.sleep) < NoGamesUnrounded
    /\ NoGamesUnrounded < Seconds(ret.sleep + 1)


-----------------------------------------------------------------------------
(* One league at a time, and the selection after the last *)

\* the step is a turn of the league loop that fetched (or failed to fetch)
\* the league the loop stands at, and nothing else
OneLeagueFetched ==
    /\ pc = "league"
    /\ league_index <= Len(config.sports)
    /\ Len(fetch_log') = Len(fetch_log) + 1
    /\ SubSeq(fetch_log', 1, Len(fetch_log)) = fetch_log
    /\ <<fetch_log'[Len(fetch_log')].league>> = config.sports[league_index].id
    /\ league_index' = league_index + 1

\* every configured league is in the record of the pass, fetched or failed
EveryLeagueVisited ==
    /\ league_index > Len(config.sports)
    /\ Len(fetch_log) = Cardinality(LeaguesWithId)
    /\ InConfigurationOrder
    /\ \A i \in 1..Len(fetch_log) :
           LeagueSucceeded(fetch_log[i]) \/ LeagueFailed(fetch_log[i])

C25_Step ==
    /\ fetch_log' # fetch_log =>
           \/ <<pc, pc'>> = <<"fetch", "league">> /\ fetch_log' = << >>
           \/ OneLeagueFetched
    /\ pc' = "blocked" => UNCHANGED <<fetch_log, league_index, all_parsed_games>>
    /\ SelectionStep =>
           /\ EveryLeagueVisited
           /\ all_games_data = all_parsed_games
           /\ all_games_data = ConcatenatedGames(fetch_log)

\* C25: within a pass the leagues are fetched one after another, each step
\* of the pass fetching exactly the league the loop stands at, and the Mode
\* Selector is called only when every configured league of the pass has been
\* fetched or has failed, on the list that holds the games of all of them.
C25_LeaguesInTurnThenSelection == [][C25_Step]_vars

\* the selection has been made after a pass whose first league gave games
\* from the provider and whose second league's request failed
C25_Witness ==
    /\ pc = "boards"
    /\ Len(fetch_log) = 2
    /\ fetch_log[1].outcome = "ok" /\ ~fetch_log[1].cached
    /\ GamesParsedFor(fetch_log[1]) # << >>
    /\ fetch_log[2].outcome = "request_error"
    /\ ret.exc = "none"
    /\ all_games_data = GamesParsedFor(fetch_log[1])


-----------------------------------------------------------------------------
(* The recorded check date *)

\* the step starts a fetch pass
PassStarts == <<pc, pc'>> = <<"fetch", "league">>

C26_Step ==
    /\ (PassStarts /\ full_fetch') => last_daily_schedule_check_date' = <<Today>>
    /\ (PassStarts /\ ~full_fetch') => UNCHANGED last_daily_schedule_check_date
    /\ ~PassStarts => UNCHANGED last_daily_schedule_check_date

\* C26: a pass that starts as a full daily fetch sets
\* last_daily_schedule_check_date to the current local date, a pass that
\* starts as an incremental refresh leaves it as it was, and no other step
\* of the loop assigns it: the field holds the date of the last full fetch.
C26_CheckDateIsDateOfLastFullFetch == [][C26_Step]_vars

\* a refresh is under way on an evening whose UTC date is already the next
\* day: the field still holds the local date the full fetch recorded
C26_Witness ==
    /\ pc = "league"
    /\ iterations = 2
    /\ ~full_fetch
    /\ last_daily_schedule_check_date = <<Today>>
    /\ DateOf(now) # Today


-----------------------------------------------------------------------------
(* The rate limit *)

\* the step sends a request to the provider: the league is not served from
\* the cache, and the request answers, fails or never returns
RequestSent ==
    /\ pc = "league"
    /\ \/ pc' = "blocked"
       \/ /\ Len(fetch_log') = Len(fetch_log) + 1
          /\ ~fetch_log'[Len(fetch_log')].cached

C27_Step ==
    /\ RequestSent =>
           /\ last_request_time' = now'
           /\ last_request_time' >=
                  last_request_time + Seconds(MIN_REQUEST_INTERVAL_SECONDS)
    /\ ~RequestSent => UNCHANGED last_request_time

\* C27: every request the fetcher sends records its time, and the recorded
\* time is at least MIN_REQUEST_INTERVAL_SECONDS (2 s) after the time recorded
\* for the request before it; nothing else changes the recorded time.
C27_RequestsAtLeastTwoSecondsApart == [][C27_Step]_vars

\* both leagues of the first pass were requested: the second request waited
\* until two seconds after the first
C27_Witness ==
    /\ iterations = 1
    /\ Len(fetch_log) = 2
    /\ ~fetch_log[1].cached /\ ~fetch_log[2].cached
    /\ last_request_time = now
    /\ now \in {At(4, 0, 0) + Seconds(MIN_REQUEST_INTERVAL_SECONDS),
                At(23, 55, 0) + Seconds(MIN_REQUEST_INTERVAL_SECONDS)}


-----------------------------------------------------------------------------
(* A request that fails *)

\* the step is a request of get_scoreboard that failed
RequestFailed ==
    /\ pc = "league"
    /\ Len(fetch_log') = Len(fetch_log) + 1
    /\ fetch_log'[Len(fetch_log')].outcome = "request_error"

\* the cache key of the league the loop stands at
KeyOfLeagueInTurn ==
    CacheKey(config.sports[league_index].sport,
             StrOf(config.sports[league_index].id), date_str)

C28_Step ==
    RequestFailed =>
        /\ fetch_log'[Len(fetch_log')].raw_events = EmptyPayload
        /\ cache' = cache
        /\ ~CacheHit(cache', KeyOfLeagueInTurn)
        /\ pc' = "league" /\ caught' = "none"
        /\ all_parsed_games' = all_parsed_games

\* C28: when the request of get_scoreboard fails, get_scoreboard returns
\* the empty payload, no exception reaches the pass, no cache file is written
\* or changed, and the next call for the same key finds no cache hit.
C28_FailedRequestReturnsEmptyAndCachesNothing == [][C28_Step]_vars

\* the request for a league failed in the first pass and the league is
\* requested again, not served from a cache, in the second pass
C28_Witness ==
    /\ iterations = 2
    /\ Len(fetch_log) >= 1
    /\ fetch_log[1].outcome = "request_error"
    /\ ~fetch_log[1].cached
    /\ all_games_data # << >>
    /\ \A c \in cache : c.key[2] # StrOf(config.sports[1].id)


-----------------------------------------------------------------------------
(* The Event Parser on malformed events *)

\* parse_events has returned
Parsed == pc = "parsed"

\* the events of the payload handed to parse_events
PayloadEvents ==
    IF fetch_log = << >> \/ fetch_log[1].raw_events.events = << >> THEN << >>
    ELSE fetch_log[1].raw_events.events[1]

\* an event with a date that parses, a competition, an id, a state and both
\* team ids
WellFormed(e) ==
    /\ e.date.kind \in {"utc", "naive"}
    /\ e.competitions
    /\ e.id # << >> /\ e.state # << >>
    /\ e.home_team_id # << >> /\ e.away_team_id # << >>

WellFormedEvents == SelectSeq(PayloadEvents, WellFormed)

\* C29: parse_events raises nothing whatever events the payload holds, and
\* the games it returns are the games of the well-formed events of the
\* payload, one each, in payload order; a malformed event gives no game and
\* does not keep the events around it from being parsed.
C29_MalformedEventsAreSkipped ==
    Parsed =>
        /\ caught = "none"
        /\ Len(all_parsed_games) = Len(WellFormedEvents)
        /\ \A i \in 1..Len(all_parsed_games) :
               /\ all_parsed_games[i].game_id = WellFormedEvents[i].id[1]
               /\ all_parsed_games[i].start_time = WellFormedEvents[i].date.t
               /\ all_parsed_games[i].status_state = WellFormedEvents[i].state[1]

\* an event whose date text makes fromisoformat raise comes before a
\* well-formed event: the one game returned is that of the second event
C29_Witness ==
    /\ Parsed
    /\ Len(PayloadEvents) >= 2
    /\ PayloadEvents[1].date.kind = "bad"
    /\ WellFormed(PayloadEvents[2])
    /\ all_parsed_games # << >>
    /\ all_parsed_games[1].game_id = PayloadEvents[2].id[1]


-----------------------------------------------------------------------------
(* The status of a Game *)

ExactlyOneStatus(g) ==
    /\ IsPregame(g) \/ IsLive(g) \/ IsPostgame(g)
    /\ ~(IsPregame(g) /\ IsLive(g))
    /\ ~(IsPregame(g) /\ IsPostgame(g))
    /\ ~(IsLive(g) /\ IsPostgame(g))

StatusIsOneOfThree(games) ==
    \A i \in 1..Len(games) :
        /\ games[i].status_state \in {"pre", "in_progress", "post"}
        /\ ExactlyOneStatus(games[i])

\* C30 (as claimed): every Game the parser returns and every Game in
\* all_games_data has a status_state that is one of pre, in_progress and
\* post, and exactly one of is_pregame, is_live and is_postgame is true of it.
C30_StatusStateIsOneOfThree ==
    /\ StatusIsOneOfThree(all_parsed_games)
    /\ StatusIsOneOfThree(all_games_data)


-----------------------------------------------------------------------------
(* The favorite flag *)

\* the favorite ids configured for a league, as a set: empty for a league
\* that is not configured or has no favorites
ConfiguredFavorites(league) ==
    UNION {{config.sports[i].favorite_team_ids[k] :
               k \in 1..Len(config.sports[i].favorite_team_ids)} :
           i \in {j \in 1..Len(config.sports) : config.sports[j].id = <<league>>}}

\* C31: every Game parse_events returns has is_favorite true exactly when
\* the home team's id or the away team's id of its event is among the
\* favorite ids configured for the Game's league; in a league without
\* configured favorites, and in a payload that names no league, it is false.
C31_FavoriteExactlyWhenATeamIsConfigured ==
    Parsed =>
        /\ Len(all_parsed_games) = Len(WellFormedEvents)
        /\ \A i \in 1..Len(all_parsed_games) :
               all_parsed_games[i].is_favorite <=>
                   \/ WellFormedEvents[i].home_team_id[1]
                          \in ConfiguredFavorites(all_parsed_games[i].league)
                   \/ WellFormedEvents[i].away_team_id[1]
                          \in ConfiguredFavorites(all_parsed_games[i].league)

\* the same two events, an away game of team 1 and a game of two other
\* teams, parsed in the league where team 1 is a favorite
C31_Witness ==
    /\ Parsed
    /\ Len(all_parsed_games) = 2
    /\ all_parsed_games[1].league = "nfl"
    /\ WellFormedEvents[1].away_team_id = <<"1">>
    /\ all_parsed_games[1].is_favorite
    /\ ~all_parsed_games[2].is_favorite


-----------------------------------------------------------------------------
(* Missing refresh-interval keys *)

KeyMissing(key) == config.refresh_intervals[key] = << >>

\* ticks from now to the next 05:00 strictly after now
TimeToFiveOClock ==
    LET today == now - (now % TicksPerDay) + Seconds(5 * 3600)
    IN  IF today > now THEN today - now ELSE today + TicksPerDay - now

\* C32: a call made with a refresh-interval key missing does not fail for
\* it and uses 5 s for in_progress_favorite_team, 15 s for
\* in_progress_other_games, 300 s for pre_game_post_game, 900 s for no_games
\* and 05:00 for daily_schedule_check_time wherever the value of the key
\* enters the sleep it returns.
C32_MissingKeysTakeTheDefaults ==
    Called =>
        /\ KeyMissing("daily_schedule_check_time") => ret.exc = "none"
        /\ ReturnedOk =>
            /\ (KeyMissing("in_progress_favorite_team") /\ ret.mode = "live_favorites")
                   => ret.sleep = 5
            /\ (KeyMissing("in_progress_other_games") /\ ret.mode = "in_progress_games")
                   => ret.sleep = 15
            /\ (/\ KeyMissing("pre_game_post_game")
                /\ ret.mode \in {"post_game_finished_favorite", "post_game_finished_all"})
                   => ret.sleep = 300
            /\ (KeyMissing("pre_game_post_game") /\ ret.mode = "pre_game_scheduled")
                   => IF EarliestUpcomingDelta < Seconds(300)
                      THEN ret.sleep = 300
                      ELSE IsFloorOf(ret.sleep,
                                     Max(Min(EarliestUpcomingDelta - Seconds(60),
                                             Seconds(300)), Seconds(30)))
            /\ (KeyMissing("no_games") /\ ret.mode = "no_games_today")
                   => IsFloorOf(ret.sleep,
                                Max(Min(NextCheck - now, Seconds(900)), Seconds(30)))
            /\ (KeyMissing("daily_schedule_check_time") /\ ret.mode = "no_games_today")
                   => IsFloorOf(ret.sleep,
                                Max(Min(TimeToFiveOClock, Seconds(NoGamesInterval)),
                                    Seconds(30)))

\* no key is configured, the list is empty and 05:00 is an hour away: the
\* sleep is the 900 s default of no_games
C32_Witness ==
    /\ ReturnedOk
    /\ \A key \in DOMAIN config.refresh_intervals : KeyMissing(key)
    /\ all_games_data = << >>
    /\ TimeToFiveOClock = Seconds(3600)
    /\ ret.mode = "no_games_today"
    /\ ret.sleep = 900


-----------------------------------------------------------------------------
(* Live mode switched off *)

LiveModeOff == config.display_settings.live_mode_enabled = <<FALSE>>

\* the mode the pre-game, post-game and no-games rules give
ModeOfLaterRules ==
    IF HasUpcomingPre THEN "pre_game_scheduled"
    ELSE IF HasPostFavorite THEN "post_game_finished_favorite"
    ELSE IF HasPostOther THEN "post_game_finished_all"
    ELSE "no_games_today"

-----------------------------------------------------------------------------
(* Pre games that should have started *)

\* the pre games of the list whose start_time is at or before now
StartedPreGames ==
    {i \in GameIndexes : /\ all_games_data[i].status_state = "pre"
                         /\ all_games_data[i].start_time <= now}

\* the five lists the Mode Selector partitions the games into
PartitionLists ==
    <<LiveFavoriteGames(all_games_data), LiveOtherGames(all_games_data),
      PregameGames(all_games_data, now), PostgameFavoriteGames(all_games_data),
      PostgameOtherGames(all_games_data)>>

-----------------------------------------------------------------------------
(* The check time and the choice of the pass *)

\* the choice of the full daily fetch with the check time left out
FullFetchDueWithoutCheckTime ==
    \/ last_daily_schedule_check_date = << >>
    \/ last_daily_schedule_check_date # << >>
           /\ last_daily_schedule_check_date[1] < Today
    \/ all_games_data = << >>

\* times of day a check time can denote
TimesOfDay == {<<0, 0>>, <<4, 30>>, <<5, 0>>, <<23, 59>>}

\* what lines 136-147 choose in the current state for a check time hm
ChoiceWith(hm) ==
    \/ IsNewDayForCheck(last_daily_schedule_check_date, Today, now + tz_offset,
                        Combine(Today, hm[1], hm[2]), all_games_data)
    \/ all_games_data = << >>

C35_Step ==
    /\ pc = "fetch" =>
           \A hm \in TimesOfDay : ChoiceWith(hm) <=> FullFetchDueWithoutCheckTime
    /\ PassStarts => (full_fetch' <=> FullFetchDueWithoutCheckTime)

\* C35: in every state in which a fetch pass is about to start, the choice
\* between the full daily fetch and the refresh is the same for every check
\* time, and the pass that starts is a full daily fetch exactly when no
\* check date is recorded, or the recorded date is before the current date,
\* or all_games_data is empty.
C35_CheckTimeDoesNotChangeTheChoice == [][C35_Step]_vars

\* a refresh is under way on the recorded date and after today's check
\* time: the list held games, so the check time did not bring a full fetch
C35_Witness ==
    /\ pc = "league"
    /\ ~full_fetch
    /\ iterations >= 2
    /\ all_games_data # << >>
    /\ last_daily_schedule_check_date = <<Today>>
    /\ now + tz_offset >= TodaysCheckTime
    /\ ~CheckTimeNotValid


-----------------------------------------------------------------------------
(* Full fetch and refresh compared *)

\* the step ends a fetch pass
PassEnds == <<pc, pc'>> = <<"league", "determine">>

\* the step is a turn of the league loop that got a result for a league
LeagueTurn == pc = "league" /\ Len(fetch_log') = Len(fetch_log) + 1

C36_Step ==
    /\ LeagueTurn =>
           all_parsed_games' =
               all_parsed_games \o ParsedInPass(fetch_log'[Len(fetch_log')])
    /\ PassEnds =>
           /\ all_games_data' = ConcatenatedGames(fetch_log)
           /\ last_data_fetch_time' = <<now + tz_offset>>
           /\ UNCHANGED <<last_daily_schedule_check_date, current_display_mode,
                          cache, last_request_time>>
    /\ (PassStarts /\ ~full_fetch') =>
           UNCHANGED <<managerVars, fetcherVars>>
    /\ (PassStarts /\ full_fetch') =>
           UNCHANGED <<all_games_data, current_display_mode, last_data_fetch_time,
                      fetcherVars>>

-----------------------------------------------------------------------------
(* The life of a cache entry *)

\* entries of the cache that hold a non-empty response
StoredNonEmpty == {c \in cache : Truthy(c.data)}

\* the league loop stands at a league for whose (sport, league, date) a
\* non-empty response is stored
TurnOfStoredLeague ==
    /\ pc = "league"
    /\ league_index <= Len(config.sports)
    /\ config.sports[league_index].id # << >>
    /\ \E c \in StoredNonEmpty : c.key = KeyOfLeagueInTurn

C37_Step ==
    /\ StoredNonEmpty \subseteq cache'
    /\ TurnOfStoredLeague =>
           /\ Len(fetch_log') = Len(fetch_log) + 1
           /\ fetch_log'[Len(fetch_log')].cached
           /\ \E c \in StoredNonEmpty :
                  /\ c.key = KeyOfLeagueInTurn
                  /\ fetch_log'[Len(fetch_log')].raw_events = c.data
           /\ UNCHANGED <<now, last_request_time, cache>>
           /\ pc' = "league"

-----------------------------------------------------------------------------
(* A selection that raises *)

\* the step is a call of the Mode Selector, after a completed pass, that raises
SelectionRaises == pc = "determine" /\ ret'.exc # "none"

C38_Step ==
    /\ SelectionRaises =>
           /\ current_display_mode' = current_display_mode
           /\ all_games_data' = all_games_data
           /\ all_games_data = ConcatenatedGames(fetch_log)
           /\ caught' = ret'.exc
           /\ pc' = "cooldown"
    /\ pc \in {"fetch", "league", "cooldown"} => UNCHANGED current_display_mode

\* C38: when the fetch pass of an iteration has completed and the Mode
\* Selector then raises, current_display_mode is left at the value it had
\* when the iteration began (the pass does not touch it) while all_games_data
\* holds the games of the pass just completed, and the exception reaches the
\* except clause of the loop.
C38_FailedSelectionKeepsTheOldMode == [][C38_Step]_vars

\* the second iteration's selection raised on a list with a pre game whose
\* start_time has no time zone: the stored mode is still the first
\* iteration's, and the list holds no game that would give it
C38_Witness ==
    /\ pc = "cooldown"
    /\ iterations = 2
    /\ ret.exc = "TypeError"
    /\ current_display_mode = "post_game_finished_favorite"
    /\ ~HasPost
    /\ all_games_data # << >>
    /\ all_games_data = ConcatenatedGames(fetch_log)


-----------------------------------------------------------------------------
(* The clocks of the pass and of the Mode Selector *)

\* the instant the fetch pass of this iteration took for today's check
\* time: the check time on the pass's date, read on the local clock
CheckInstantOfPass ==
    Combine(date_str, FetchCheckTime(config)[1], FetchCheckTime(config)[2])
        - tz_offset

\* the instant the Mode Selector called now takes for today's check time
CheckInstantOfSelector ==
    Combine(DateOf(now), SelectorCheckTime(config)[1], SelectorCheckTime(config)[2])

\* C39 (as claimed): when the Mode Selector is called after the fetch pass
\* of an iteration, the current date of the pass is the current date of the
\* Mode Selector and today's check time is the same instant for both.
C39_PassAndSelectorAgreeOnDateAndCheckTime ==
    FetchPassCompleted =>
        /\ date_str = DateOf(now)
        /\ CheckInstantOfPass = CheckInstantOfSelector


-----------------------------------------------------------------------------
(* The recorded check date over a run *)

\* no fetch pass has started since construction
NoPassYet == fetch_log = << >> /\ last_data_fetch_time = << >> /\ date_str = 0

C40_Step ==
    /\ last_daily_schedule_check_date' = << >> => (~PassStarts /\ NoPassYet')
    /\ last_daily_schedule_check_date # << >> =>
           /\ last_daily_schedule_check_date' # << >>
           /\ last_daily_schedule_check_date'[1] >= last_daily_schedule_check_date[1]
    /\ last_daily_schedule_check_date' # << >> =>
           last_daily_schedule_check_date'[1] <= DateOf(now' + tz_offset')
    /\ (/\ PassStarts
        /\ last_daily_schedule_check_date # << >>
        /\ last_daily_schedule_check_date[1] < Today) =>
           /\ full_fetch'
           /\ last_daily_schedule_check_date' = <<Today>>

\* C40: over a run of the loop, whose clock never goes back,
\* last_daily_schedule_check_date is unset only as long as no fetch pass has
\* started, never decreases once set and is never later than the current
\* local date, and a pass that starts on a date later than the recorded one
\* is a full daily fetch.
C40_CheckDateOnlyMovesForward == [][C40_Step]_vars

\* a full fetch is under way on the day after the last pass ended, although
\* the list still holds that pass's games
C40_Witness ==
    /\ pc = "league"
    /\ full_fetch
    /\ all_games_data # << >>
    /\ last_daily_schedule_check_date = <<Today>>
    /\ last_data_fetch_time # << >>
    /\ DateOf(last_data_fetch_time[1]) = Today - 1

=============================================================================
